---------------------------- MODULE Spec2Model ----------------------------
(***************************************************************************)
(* Model of the pk_edit Generation III save-file codec:                    *)
(*   src/src/data_structure/save_data.rs  (SaveFile, Section, PCBuffer)    *)
(*   src/src/data_structure/pokemon.rs    (Pokemon, PokemonData)           *)
(*   src/src/data_structure/character_set.rs  (get_char, get_code)         *)
(* All offsets and sizes are the program's own.  The 128 KB backing buffer *)
(* is kept sparse: per 4096-byte page, a function from the offsets of its  *)
(* non-zero bytes to their values; every other byte is zero.               *)
(*   Spec        one SaveFile and the writes made through it               *)
(*   SpecRead    one SaveFile and one query on it                          *)
(*   SpecCodec   decode one 80-byte slot, mutate, re-encode                *)
(*   SpecSelect  the choice of the current block                           *)
(*   SpecPocket  encrypt_pocket, then decrypt_pocket                       *)
(*   SpecChecksum  one section and one record whose bytes change           *)
(*   SpecFields  TrainerID conversions, nickname, species, level, gender   *)
(*   SpecStats   Stats::update_evs and Stats::update_ivs on one record     *)
(***************************************************************************)
EXTENDS Integers, Sequences, FiniteSets, TLC

VARIABLES
    data,       \* SaveFile.data: the backing buffer [len, pages]
    pc_buffer,  \* SaveFile.pc_buffer: [buffer: the 9 sections, data: logical bytes]
    pk,         \* the Pokemon record the caller holds, or NoPokemon
    slot,       \* the bytes the held record was decoded from
    edits,      \* number of field mutators applied to pk since it was decoded
    writes,     \* number of save_pokemon / save_pocket calls so far
    fresh,      \* TRUE iff update_checksum ran after the last field mutator
    out,        \* bytes returned by the last raw_data / encrypt_pocket / into
                \* call, or the string nickname() returned
    ret,        \* the last operation and how it ended
    pocket_in,  \* [key, items]: the security key and the items of a pocket
    entries     \* (item name, quantity) list passed to save_pocket or
                \* returned by decrypt_pocket

vars == <<data, pc_buffer, pk, slot, edits, writes, fresh, out, ret, pocket_in, entries>>

-----------------------------------------------------------------------------
(* Integer and byte helpers (byteorder::LittleEndian, ^, overflowing_add)  *)

U16 == 65536

\* let v be the value of an expression in F: With(e, LAMBDA v : ...)
With(v, F(_)) == F(v)

\* A u32 is kept as its two 16-bit halves, value = hi * 2^16 + lo
MkU32(hi, lo) == [hi |-> hi, lo |-> lo]
U32_MAX == MkU32(65535, 65535)

RECURSIVE Xor(_, _)
Xor(a, b) ==
    IF a = 0 THEN b
    ELSE IF b = 0 THEN a
    ELSE (((a % 2) + (b % 2)) % 2) + 2 * Xor(a \div 2, b \div 2)

RECURSIVE And(_, _)
And(a, b) ==
    IF a = 0 \/ b = 0 THEN 0
    ELSE ((a % 2) * (b % 2)) + 2 * And(a \div 2, b \div 2)

Or(a, b) == a + b - And(a, b)

\* s[a..b) with Rust's zero-based, end-exclusive indices
Slice(s, a, b) == SubSeq(s, a + 1, b)

\* s with s[a..a+Len(t)) replaced by t (copy_from_slice on a sub-slice)
Splice(s, a, t) ==
    SubSeq([i \in 1..Len(s) |-> IF i > a /\ i <= a + Len(t) THEN t[i - a] ELSE s[i]],
           1, Len(s))

read_u16(s) == s[1] + 256 * s[2]
read_u32(s) == MkU32(s[3] + 256 * s[4], s[1] + 256 * s[2])
to_le_bytes16(v) == <<v % 256, (v \div 256) % 256>>
to_le_bytes32(v) == to_le_bytes16(v.lo) \o to_le_bytes16(v.hi)

Xor32(a, b) == MkU32(Xor(a.hi, b.hi), Xor(a.lo, b.lo))
Or32(a, b) == MkU32(Or(a.hi, b.hi), Or(a.lo, b.lo))
Gt32(a, b) == a.hi > b.hi \/ (a.hi = b.hi /\ a.lo > b.lo)
\* v % m for a small modulus m
Mod32(v, m) == (((v.hi % m) * (U16 % m)) + v.lo) % m
\* (x as u32) << k for a 16-bit x
Shl32(x, k) ==
    IF k < 16
    THEN MkU32((x \div (2 ^ (16 - k))) % U16, ((x % (2 ^ (16 - k))) * (2 ^ k)))
    ELSE MkU32((x * (2 ^ (k - 16))) % U16, 0)

Zeros(n) == SubSeq([i \in 1..n |-> 0], 1, n)

-----------------------------------------------------------------------------
(* pokemon.rs: the entity record                                           *)

SPECIES == <<
    412, 277, 278, 279, 280, 281, 282, 283, 284, 285, 286, 287, 288, 289, 290, 291, 292, 293, 294,
    295, 296, 297, 298, 299, 300, 304, 305, 309, 310, 392, 393, 394, 311, 312, 306, 307, 364, 365,
    366, 301, 302, 303, 370, 371, 372, 335, 336, 350, 320, 315, 316, 322, 355, 382, 383, 384, 356,
    357, 337, 338, 353, 354, 386, 387, 363, 367, 368, 330, 331, 313, 314, 339, 340, 321, 351, 352,
    308, 332, 333, 334, 344, 345, 358, 359, 380, 379, 348, 349, 323, 324, 326, 327, 318, 319, 388,
    389, 390, 391, 328, 329, 385, 317, 377, 378, 361, 362, 369, 411, 376, 360, 346, 347, 341, 342,
    343, 373, 374, 375, 381, 325, 395, 396, 397, 398, 399, 400, 401, 402, 403, 407, 408, 404, 405,
    406, 409, 410 >>

\* order_data_substructure: the offsets each key assigns, indexed by key + 1
SubstructureOrder == <<
    [growth |-> 0, attacks |-> 12, ev |-> 24, misc |-> 36],
    [growth |-> 0, attacks |-> 12, ev |-> 36, misc |-> 24],
    [growth |-> 0, attacks |-> 24, ev |-> 12, misc |-> 36],
    [growth |-> 0, attacks |-> 36, ev |-> 12, misc |-> 24],
    [growth |-> 0, attacks |-> 24, ev |-> 36, misc |-> 12],
    [growth |-> 0, attacks |-> 36, ev |-> 24, misc |-> 12],
    [growth |-> 12, attacks |-> 0, ev |-> 24, misc |-> 36],
    [growth |-> 12, attacks |-> 0, ev |-> 36, misc |-> 24],
    [growth |-> 24, attacks |-> 0, ev |-> 12, misc |-> 36],
    [growth |-> 36, attacks |-> 0, ev |-> 12, misc |-> 24],
    [growth |-> 24, attacks |-> 0, ev |-> 36, misc |-> 12],
    [growth |-> 36, attacks |-> 0, ev |-> 24, misc |-> 12],
    [growth |-> 12, attacks |-> 24, ev |-> 0, misc |-> 36],
    [growth |-> 12, attacks |-> 36, ev |-> 0, misc |-> 24],
    [growth |-> 24, attacks |-> 12, ev |-> 0, misc |-> 36],
    [growth |-> 36, attacks |-> 12, ev |-> 0, misc |-> 24],
    [growth |-> 24, attacks |-> 36, ev |-> 0, misc |-> 12],
    [growth |-> 36, attacks |-> 24, ev |-> 0, misc |-> 12],
    [growth |-> 12, attacks |-> 24, ev |-> 36, misc |-> 0],
    [growth |-> 12, attacks |-> 36, ev |-> 24, misc |-> 0],
    [growth |-> 24, attacks |-> 12, ev |-> 36, misc |-> 0],
    [growth |-> 36, attacks |-> 12, ev |-> 24, misc |-> 0],
    [growth |-> 24, attacks |-> 36, ev |-> 12, misc |-> 0],
    [growth |-> 36, attacks |-> 24, ev |-> 12, misc |-> 0] >>

\* order_data_substructure with the EV and Miscellaneous offsets exchanged
order_data_substructure_ev_misc(key, bytes) ==
    [data                 |-> bytes,
     growth_offset        |-> SubstructureOrder[key + 1].growth,
     attacks_offset       |-> SubstructureOrder[key + 1].attacks,
     ev_offset            |-> SubstructureOrder[key + 1].misc,
     miscellaneous_offset |-> SubstructureOrder[key + 1].ev]

\* PokemonData::new followed by order_data_substructure(key, ..)
order_data_substructure(key, bytes) ==
    [data                 |-> bytes,
     growth_offset        |-> SubstructureOrder[key + 1].growth,
     attacks_offset       |-> SubstructureOrder[key + 1].attacks,
     ev_offset            |-> SubstructureOrder[key + 1].ev,
     miscellaneous_offset |-> SubstructureOrder[key + 1].misc]

\* pokemon_data_encryption with the key's 16-bit halves exchanged
pokemon_data_encryption_swapped(key, bytes) ==
    LET words == Len(bytes) \div 4
        xored == SubSeq([w \in 1..words |->
                           to_le_bytes32(Xor32(read_u32(Slice(bytes, 4 * w - 4, 4 * w)),
                                               MkU32(key.lo, key.hi)))],
                        1, words)
    IN  SubSeq([i \in 1..Len(bytes) |-> xored[((i - 1) \div 4) + 1][((i - 1) % 4) + 1]],
               1, Len(bytes))

\* pokemon_data_encryption: XOR every 4-byte little-endian word with the key
pokemon_data_encryption(key, bytes) ==
    LET words == Len(bytes) \div 4
        xored == SubSeq([w \in 1..words |->
                           to_le_bytes32(Xor32(read_u32(Slice(bytes, 4 * w - 4, 4 * w)), key))],
                        1, words)
    IN  SubSeq([i \in 1..Len(bytes) |-> xored[((i - 1) \div 4) + 1][((i - 1) % 4) + 1]],
               1, Len(bytes))

RECURSIVE SumWords16(_, _)
SumWords16(bytes, n) ==
    IF n = 0 THEN 0
    ELSE (SumWords16(bytes, n - 1) + read_u16(Slice(bytes, 2 * n - 2, 2 * n))) % U16

\* PokemonData::checksum
PokemonData_checksum(pd) == SumWords16(pd.data, Len(pd.data) \div 2)

species_id(p) ==
    LET o == p.pokemon_data.growth_offset
    IN  read_u16(Slice(p.pokemon_data.data, o, o + 2))

personality_value(p) == read_u32(p.personality_value)

InSPECIES(s) == \E i \in 1..Len(SPECIES) : SPECIES[i] = s

\* Pokemon::nat_dex_number aborts when position(..) finds nothing to unwrap()
nat_dex_number_panics(p) ==
    LET s == species_id(p)
    IN  s # 412 /\ s >= 277 /\ ~InSPECIES(s)

\* nat_dex_number adding 252 to the position in SPECIES
nat_dex_number_252(p) ==
    LET s == species_id(p)
    IN  IF s = 412 THEN 0
        ELSE IF s >= 277
             THEN (CHOOSE i \in 1..Len(SPECIES) :
                       SPECIES[i] = s /\ \A j \in 1..(i - 1) : SPECIES[j] # s) - 1 + 252
        ELSE s

\* Pokemon::nat_dex_number, where it returns
nat_dex_number(p) ==
    LET s == species_id(p)
    IN  IF s = 412 THEN 0
        ELSE IF s >= 277
             THEN (CHOOSE i \in 1..Len(SPECIES) :
                       SPECIES[i] = s /\ \A j \in 1..(i - 1) : SPECIES[j] # s) - 1 + 251
        ELSE s

\* the effort / individual values Pokemon::init_stats reads into Stats
ReadStats(pd) ==
    LET e   == pd.ev_offset
        m   == pd.miscellaneous_offset
        ivs == read_u32(Slice(pd.data, m + 4, m + 8))
        lo  == ivs.lo
        hi  == ivs.hi
    IN  [hp_ev         |-> pd.data[e + 1],
         attack_ev     |-> pd.data[e + 2],
         defense_ev    |-> pd.data[e + 3],
         sp_attack_ev  |-> pd.data[e + 5],
         sp_defense_ev |-> pd.data[e + 6],
         speed_ev      |-> pd.data[e + 4],
         hp_iv         |-> lo % 32,                           \* ivs & 0x1F
         attack_iv     |-> (lo \div 32) % 32,                 \* bits 5..9
         defense_iv    |-> (lo \div 1024) % 32,               \* bits 10..14
         speed_iv      |-> (lo \div 32768) + 2 * (hi % 16),   \* bits 15..19
         sp_attack_iv  |-> (hi \div 16) % 32,                 \* bits 20..24
         sp_defense_iv |-> (hi \div 512) % 32]                \* bits 25..29

NoPokemon == [none |-> TRUE]

\* the outcome of an operation that aborted (panic!, expect, unwrap, slice index)
Panicked == [ok |-> FALSE]

\* Pokemon::new(offset, buffer), init_stats included; Panicked when a slice
\* index or the unwrap() in nat_dex_number fails
Pokemon_new(offset, buffer) ==
    IF Len(buffer) < 80 THEN Panicked
    ELSE
      LET ecryption_key == Xor32(read_u32(Slice(buffer, 4, 8)), read_u32(Slice(buffer, 0, 4)))
          plain == pokemon_data_encryption(ecryption_key, Slice(buffer, 32, 80))
          modulo == Mod32(read_u32(Slice(buffer, 0, 4)), 24)
      IN  With(order_data_substructure(modulo, plain), LAMBDA pd :
          With([offset            |-> offset,
                personality_value |-> Slice(buffer, 0, 4),
                ot_id             |-> Slice(buffer, 4, 8),
                nickname          |-> Slice(buffer, 8, 18),
                language          |-> Slice(buffer, 18, 19),
                misc_flags        |-> Slice(buffer, 19, 20),
                ot_name           |-> Slice(buffer, 20, 27),
                markings          |-> Slice(buffer, 27, 28),
                checksum          |-> Slice(buffer, 28, 30),
                padding           |-> Slice(buffer, 30, 32),
                pokemon_data      |-> pd,
                stats             |-> ReadStats(pd)], LAMBDA p :
          IF nat_dex_number_panics(p) THEN Panicked ELSE [ok |-> TRUE, p |-> p]))

\* raw_data writing the checksum of the substructure in place of the
\* stored one
raw_data_recomputed(p) ==
    LET ecryption_key == Xor32(read_u32(p.personality_value), read_u32(p.ot_id))
    IN  p.personality_value \o p.ot_id \o p.nickname \o p.language \o p.misc_flags
        \o p.ot_name \o p.markings \o to_le_bytes16(PokemonData_checksum(p.pokemon_data))
        \o p.padding \o pokemon_data_encryption(ecryption_key, p.pokemon_data.data)

\* Pokemon::raw_data
raw_data(p) ==
    LET ecryption_key == Xor32(read_u32(p.personality_value), read_u32(p.ot_id))
    IN  p.personality_value \o p.ot_id \o p.nickname \o p.language \o p.misc_flags
        \o p.ot_name \o p.markings \o p.checksum \o p.padding
        \o pokemon_data_encryption(ecryption_key, p.pokemon_data.data)

\* Pokemon::save_stats: write the Stats back into the substructure
save_stats(p) ==
    LET e   == p.pokemon_data.ev_offset
        m   == p.pokemon_data.miscellaneous_offset
        s   == p.stats
        evs == <<s.hp_ev % 256, s.attack_ev % 256, s.defense_ev % 256,
                 s.speed_ev % 256, s.sp_attack_ev % 256, s.sp_defense_ev % 256>>
        ivs == Or32(Or32(Or32(Shl32(s.hp_iv, 0), Shl32(s.attack_iv, 5)),
                         Or32(Shl32(s.defense_iv, 10), Shl32(s.speed_iv, 15))),
                    Or32(Shl32(s.sp_attack_iv, 20), Shl32(s.sp_defense_iv, 25)))
        d1  == Splice(p.pokemon_data.data, e, evs)
        d2  == Splice(d1, m + 4, to_le_bytes32(ivs))
    IN  [p EXCEPT !.pokemon_data.data = d2]

\* Pokemon::update_checksum
update_checksum(p) ==
    With(save_stats(p), LAMBDA q :
        [q EXCEPT !.checksum = to_le_bytes16(PokemonData_checksum(q.pokemon_data))])

\* Pokemon::set_friendship
set_friendship(p, value) ==
    [p EXCEPT !.pokemon_data.data =
        Splice(@, p.pokemon_data.growth_offset + 9, <<value>>)]

\* Pokemon::infect_pokerus; strain is the value rng.gen_range(1..=15) returned
infect_pokerus(p, strain) ==
    LET o    == p.pokemon_data.miscellaneous_offset
        days == (strain % 4) + 1
        b    == Or(Or(p.pokemon_data.data[o + 1], (strain * 16) % 256), days)
    IN  [p EXCEPT !.pokemon_data.data = Splice(@, o, <<b>>)]

\* cure_pokerus keeping the days nibble and clearing the strain
cure_pokerus_days(p) ==
    LET o == p.pokemon_data.miscellaneous_offset
    IN  [p EXCEPT !.pokemon_data.data = Splice(@, o, <<And(p.pokemon_data.data[o + 1], 15)>>)]

\* Pokemon::cure_pokerus
cure_pokerus(p) ==
    LET o == p.pokemon_data.miscellaneous_offset
    IN  [p EXCEPT !.pokemon_data.data = Splice(@, o, <<And(p.pokemon_data.data[o + 1], 240)>>)]

\* Pokemon::remove_pokerus
remove_pokerus(p) ==
    [p EXCEPT !.pokemon_data.data = Splice(@, p.pokemon_data.miscellaneous_offset, <<0>>)]

\* Pokemon::pokerus_status
pokerus_status(p) ==
    LET pokerus == p.pokemon_data.data[p.pokemon_data.miscellaneous_offset + 1]
        strain == And(pokerus, 240) \div 16
        days == And(pokerus, 15)
    IN  IF strain > 0 /\ days = 0 THEN "Cured"
        ELSE IF strain > 0 /\ days > 0 THEN "Infected"
        ELSE "None"

-----------------------------------------------------------------------------
(* save_data.rs: the backing buffer, Section, SaveFile                     *)

NUMBER_GAME_SAVE_SECTIONS == 14
SECTION_SIZE == 4096
SECTION_DATA_SIZE == 4084
PC_BUFFER_SECTION_SIZE == 3968
PC_BUFFER_I_SECTION_SIZE == 2000
GAME_SAVE_A_OFFSET == 0
GAME_SAVE_B_OFFSET == 57344

\* A byte buffer is [len, pages]: pages maps the index of every 4096-byte
\* page that holds a non-zero byte to the function from the offsets of its
\* non-zero bytes to their values; every other byte below len is zero
PageSize == SECTION_SIZE
PageOf(o) == o \div PageSize
MkBuffer(len, pages) == [len |-> len, pages |-> pages]

Rd(buf, o) ==
    IF PageOf(o) \in DOMAIN buf.pages /\ o \in DOMAIN buf.pages[PageOf(o)]
    THEN buf.pages[PageOf(o)][o] ELSE 0

\* the offsets in lo..hi of the non-zero bytes
NonZero(buf, lo, hi) ==
    UNION {{o \in DOMAIN buf.pages[p] : o >= lo /\ o <= hi} :
             p \in (PageOf(lo)..PageOf(hi)) \cap DOMAIN buf.pages}

\* buf[off..off+n] as a dense byte sequence
ReadBytes(buf, off, n) == SubSeq([i \in 1..n |-> Rd(buf, off + i - 1)], 1, n)

\* buf with the bytes lo..hi replaced: new maps the offsets that become
\* non-zero to their values, the rest of lo..hi becomes zero
Overlay(buf, lo, hi, new) ==
    LET P == PageOf(lo)..PageOf(hi)
        old(p) == IF p \in DOMAIN buf.pages THEN buf.pages[p] ELSE << >>
        merged(p) ==
            [o \in {x \in DOMAIN new : PageOf(x) = p} |-> new[o]]
            @@ [o \in {x \in DOMAIN old(p) : x < lo \/ x > hi} |-> old(p)[o]]
        touched == [p \in P |-> merged(p)] @@ << >>
        dom == (DOMAIN buf.pages \ P) \cup {p \in P : DOMAIN touched[p] # {}}
    IN  IF hi < lo THEN buf
        ELSE MkBuffer(buf.len,
                      [p \in dom |-> IF p \in P THEN touched[p] ELSE buf.pages[p]] @@ << >>)

\* buf[off..off+Len(s)].copy_from_slice(s)
WriteBytes(buf, off, s) ==
    Overlay(buf, off, off + Len(s) - 1,
            [o \in {off + i - 1 : i \in {j \in 1..Len(s) : s[j] # 0}} |-> s[o - off + 1]])

\* dst[doff..doff+n].copy_from_slice(&src[soff..soff+n]) between two buffers
CopyRange(dst, doff, src, soff, n) ==
    Overlay(dst, doff, doff + n - 1,
            [o \in {x - soff + doff : x \in NonZero(src, soff, soff + n - 1)}
                |-> Rd(src, o - doff + soff)])

\* Vec::extend_from_slice(&src[soff..soff+n])
ExtendFrom(dst, src, soff, n) ==
    LET extended == MkBuffer(dst.len + n, dst.pages)
    IN  CopyRange(extended, dst.len, src, soff, n)

\* SaveFile::new: the two fixed arrays of 14 sections
Section(offset) == [offset |-> offset, size |-> SECTION_SIZE]
game_save_a == [i \in 1..NUMBER_GAME_SAVE_SECTIONS |->
                    Section(GAME_SAVE_A_OFFSET + (i - 1) * SECTION_SIZE)]
game_save_b == [i \in 1..NUMBER_GAME_SAVE_SECTIONS |->
                    Section(GAME_SAVE_B_OFFSET + (i - 1) * SECTION_SIZE)]

\* &buffer[self.offset..self.offset + self.size] is in bounds
SectionInBounds(section, buf) == section.offset + section.size <= buf.len

\* Section::save_index
Section_save_index(section, buf) == read_u32(ReadBytes(buf, section.offset + 4092, 4))

\* SectionID: 0..13 are the type ids, 14 is SectionID::NA
TrainerInfo == 0
TeamItems == 1
PCbufferA == 5
PCbufferI == 13
SectionID_NA == 14
SectionID_from(id) == IF id <= 13 THEN id ELSE SectionID_NA

\* Section::id
Section_id(section, buf) == SectionID_from(read_u16(ReadBytes(buf, section.offset + 4084, 2)))

\* the sum over the offsets D (all within lo..hi) of the bytes' weights in
\* their 16-bit half-word: 1 for an even offset, 256 for an odd one
RECURSIVE SumHalves(_, _, _, _)
SumHalves(buf, D, lo, hi) ==
    IF D = {} THEN 0
    ELSE IF lo = hi THEN Rd(buf, lo) * (IF lo % 2 = 0 THEN 1 ELSE 256)
    ELSE LET mid == (lo + hi) \div 2
         IN  SumHalves(buf, {o \in D : o <= mid}, lo, mid)
             + SumHalves(buf, {o \in D : o > mid}, mid + 1, hi)

\* Section_checksum folding with an end-around carry
Section_checksum_end_around(section, buf) ==
    LET lo == section.offset
        hi == section.offset + SECTION_DATA_SIZE - 1
        D == NonZero(buf, lo, hi)
        sum_lo == SumHalves(buf, {o \in D : (o - lo) % 4 < 2}, lo, hi)
        sum_hi == SumHalves(buf, {o \in D : (o - lo) % 4 >= 2}, lo, hi)
        checksum == MkU32((sum_hi + (sum_lo \div U16)) % U16, sum_lo % U16)
    IN  ((checksum.lo + checksum.hi) % U16) + ((checksum.lo + checksum.hi) \div U16)

\* Section_checksum over the whole 4096-byte section, footer included
Section_checksum_whole(section, buf) ==
    LET lo == section.offset
        hi == section.offset + SECTION_SIZE - 1
        D == NonZero(buf, lo, hi)
        sum_lo == SumHalves(buf, {o \in D : (o - lo) % 4 < 2}, lo, hi)
        sum_hi == SumHalves(buf, {o \in D : (o - lo) % 4 >= 2}, lo, hi)
        checksum == MkU32((sum_hi + (sum_lo \div U16)) % U16, sum_lo % U16)
    IN  (checksum.lo + checksum.hi) % U16

\* Section_checksum over the first 3964 bytes of the section
Section_checksum_3964(section, buf) ==
    LET lo == section.offset
        hi == section.offset + 3964 - 1
        D == NonZero(buf, lo, hi)
        sum_lo == SumHalves(buf, {o \in D : (o - lo) % 4 < 2}, lo, hi)
        sum_hi == SumHalves(buf, {o \in D : (o - lo) % 4 >= 2}, lo, hi)
        checksum == MkU32((sum_hi + (sum_lo \div U16)) % U16, sum_lo % U16)
    IN  (checksum.lo + checksum.hi) % U16

\* the 16-bit value Section::write_checksum computes over self.data(buffer):
\* the 32-bit wrapping sum of the little-endian words, from the sums of their
\* low and high halves, then its two halves added modulo 2^16
Section_checksum(section, buf) ==
    LET lo == section.offset
        hi == section.offset + SECTION_DATA_SIZE - 1
        D == NonZero(buf, lo, hi)
        sum_lo == SumHalves(buf, {o \in D : (o - lo) % 4 < 2}, lo, hi)
        sum_hi == SumHalves(buf, {o \in D : (o - lo) % 4 >= 2}, lo, hi)
        checksum == MkU32((sum_hi + (sum_lo \div U16)) % U16, sum_lo % U16)
    IN  (checksum.lo + checksum.hi) % U16

\* write_checksum storing the checksum two bytes early, over the type id
write_checksum_over_id(section, buf) ==
    WriteBytes(buf, section.offset + 4084, to_le_bytes16(Section_checksum(section, buf)))

\* Section::write_checksum
write_checksum(section, buf) ==
    WriteBytes(buf, section.offset + 4086, to_le_bytes16(Section_checksum(section, buf)))

\* current_save with >= where the code has >
current_save_ge(buf) ==
    LET save_index_a == Section_save_index(game_save_a[1], buf)
        save_index_b == Section_save_index(game_save_b[1], buf)
    IN  IF save_index_a = U32_MAX THEN game_save_b
        ELSE IF Gt32(save_index_a, save_index_b) \/ save_index_a = save_index_b
             THEN game_save_a
        ELSE game_save_b

\* SaveFile::current_save
current_save(buf) ==
    LET save_index_a == Section_save_index(game_save_a[1], buf)
        save_index_b == Section_save_index(game_save_b[1], buf)
    IN  IF save_index_a = U32_MAX THEN game_save_b
        ELSE IF Gt32(save_index_a, save_index_b) THEN game_save_a
        ELSE game_save_b

\* SaveFile::get_section: Option<Section> as [some, section]
get_section(buf, id) ==
    With(current_save(buf), LAMBDA cur :
    With({i \in 1..Len(cur) : Section_id(cur[i], buf) = id}, LAMBDA hit :
        IF hit = {} THEN [some |-> FALSE]
        ELSE [some |-> TRUE,
              section |-> cur[CHOOSE i \in hit : \A j \in hit : i <= j]]))

\* sections.sort_by(id): the stable order of the indices S by section id
RECURSIVE SortById(_, _, _)
SortById(cur, buf, S) ==
    IF S = {} THEN << >>
    ELSE LET i == CHOOSE x \in S : \A y \in S :
                     \/ Section_id(cur[x], buf) < Section_id(cur[y], buf)
                     \/ (Section_id(cur[x], buf) = Section_id(cur[y], buf) /\ x <= y)
         IN  <<cur[i]>> \o SortById(cur, buf, S \ {i})

\* PCBuffer::new taking 3968 bytes from every section
PCBuffer_part_size_full(section, buf) == PC_BUFFER_SECTION_SIZE

\* PCBuffer::new: the number of bytes it takes from one section
PCBuffer_part_size(section, buf) ==
    IF Section_id(section, buf) = PCbufferI
    THEN PC_BUFFER_I_SECTION_SIZE ELSE PC_BUFFER_SECTION_SIZE

\* PCBuffer::new: the loop over the first n sections
RECURSIVE PCBuffer_data(_, _, _)
PCBuffer_data(sections, buf, n) ==
    IF n = 0 THEN MkBuffer(0, << >>)
    ELSE ExtendFrom(PCBuffer_data(sections, buf, n - 1), buf, sections[n].offset,
                    PCBuffer_part_size(sections[n], buf))

PCBuffer_new(sections, buf) ==
    [buffer |-> sections, data |-> PCBuffer_data(sections, buf, Len(sections))]

\* SaveFile::new / init_pc_buffer: [ok, pc]; aborts when a section lies past
\* the end of the buffer or copy_from_slice gets other than 9 sections
SaveFile_new(buf) ==
    IF ~SectionInBounds(game_save_a[1], buf) \/ ~SectionInBounds(game_save_b[1], buf)
    THEN Panicked
    ELSE With(current_save(buf), LAMBDA cur :
         With(SortById(cur, buf, {i \in 1..Len(cur) : Section_id(cur[i], buf) \in 5..13}),
              LAMBDA sections :
             IF \E i \in 1..Len(cur) : ~SectionInBounds(cur[i], buf) THEN Panicked
             ELSE IF Len(sections) # 9 THEN Panicked
             ELSE [ok |-> TRUE, pc |-> PCBuffer_new(sections, buf)]))

-----------------------------------------------------------------------------
(* save_data.rs: queries and writes of SaveFile                            *)

\* the Items table of pk_edit.db (id_g3 -> e_name), a sample of its rows
ItemTable == [id \in {1, 13, 18} |->
                CASE id = 1  -> "Master Ball"
                  [] id = 13 -> "Potion"
                  [] id = 18 -> "Paralyze Heal"]

\* misc::match_item_name
match_item_name(name) ==
    CASE name = "Parlyz Heal" -> "Paralyze Heal"
      [] name = "X Defend" -> "X Defense"
      [] name = "Thunderstone" -> "Thunder Stone"
      [] name = "BlackGlasses" -> "Black Glasses"
      [] name = "NeverMeltIce" -> "Never-Melt Ice"
      [] name = "TwistedSpoon" -> "Twisted Spoon"
      [] name = "DeepSeaTooth" -> "Deep Sea Tooth"
      [] name = "DeepSeaScale" -> "Deep Sea Scale"
      [] name = "SilverPowder" -> "Silver Powder"
      [] name = "EnergyPowder" -> "Energy Powder"
      [] OTHER -> name

\* misc::find_item(id).unwrap_or_else(|_| "Unknown")
find_item_or_unknown(id) == IF id \in DOMAIN ItemTable THEN ItemTable[id] ELSE "Unknown"

\* misc::item_id_g3(name).unwrap_or(0)
item_id_g3_or_0(name) ==
    LET hit == {id \in DOMAIN ItemTable : ItemTable[id] = match_item_name(name)}
    IN  IF hit = {} THEN 0 ELSE CHOOSE id \in hit : TRUE

\* SaveFile::decrypt_pocket: [ok, list]; a trailing chunk shorter than 4
\* bytes gives Err(InvalidDataLength)
decrypt_pocket(bytes, security_key) ==
    IF Len(bytes) % 4 # 0 THEN [ok |-> FALSE, err |-> "InvalidDataLength"]
    ELSE [ok |-> TRUE,
          list |-> [k \in 1..(Len(bytes) \div 4) |->
                      LET chunk == Slice(bytes, 4 * k - 4, 4 * k)
                      IN  <<find_item_or_unknown(read_u16(Slice(chunk, 0, 2))),
                            Xor(read_u16(Slice(chunk, 2, 4)), security_key)>>]]

\* SaveFile::encrypt_pocket
RECURSIVE encrypt_pocket(_, _)
encrypt_pocket(pocket, security_key) ==
    IF pocket = << >> THEN << >>
    ELSE to_le_bytes16(item_id_g3_or_0(Head(pocket)[1]))
         \o to_le_bytes16(Xor(Head(pocket)[2], security_key))
         \o encrypt_pocket(Tail(pocket), security_key)

\* pocket_address(pocket, game_code): (start, end)
Pockets == {"Items", "Pokeballs", "Berries", "Tms", "Key"}

\* pocket_address with Emerald's key pocket starting four bytes early, on
\* the last entry of the items pocket
pocket_address_overlap(pocket, game_code) ==
    LET rs == game_code = MkU32(0, 0)
        frlg == game_code = MkU32(0, 1)
    IN  CASE pocket = "Items" ->
               IF rs THEN <<1376, 1456>> ELSE IF frlg THEN <<784, 952>> ELSE <<1376, 1496>>
          [] pocket = "Pokeballs" ->
               IF rs THEN <<1536, 1600>> ELSE IF frlg THEN <<1072, 1124>> ELSE <<1616, 1680>>
          [] pocket = "Berries" ->
               IF rs THEN <<1856, 2040>> ELSE IF frlg THEN <<1356, 1528>> ELSE <<1936, 2120>>
          [] pocket = "Tms" ->
               IF rs THEN <<1600, 1856>> ELSE IF frlg THEN <<1124, 1356>> ELSE <<1680, 1936>>
          [] pocket = "Key" ->
               IF rs THEN <<1456, 1536>> ELSE IF frlg THEN <<952, 1072>> ELSE <<1492, 1616>>

\* pocket_address
pocket_address(pocket, game_code) ==
    LET rs == game_code = MkU32(0, 0)
        frlg == game_code = MkU32(0, 1)
    IN  CASE pocket = "Items" ->
               IF rs THEN <<1376, 1456>> ELSE IF frlg THEN <<784, 952>> ELSE <<1376, 1496>>
          [] pocket = "Pokeballs" ->
               IF rs THEN <<1536, 1600>> ELSE IF frlg THEN <<1072, 1124>> ELSE <<1616, 1680>>
          [] pocket = "Berries" ->
               IF rs THEN <<1856, 2040>> ELSE IF frlg THEN <<1356, 1528>> ELSE <<1936, 2120>>
          [] pocket = "Tms" ->
               IF rs THEN <<1600, 1856>> ELSE IF frlg THEN <<1124, 1356>> ELSE <<1680, 1936>>
          [] pocket = "Key" ->
               IF rs THEN <<1456, 1536>> ELSE IF frlg THEN <<952, 1072>> ELSE <<1496, 1616>>

\* SaveFile::game_code / get_game_code: [some, code]; none when the current
\* block has no TrainerInfo section
read_game_code(buf) ==
    With(get_section(buf, TrainerInfo), LAMBDA s :
        IF s.some
        THEN [some |-> TRUE, code |-> read_u32(ReadBytes(buf, s.section.offset + 172, 4))]
        ELSE [some |-> FALSE])

\* SaveFile::security_key, given that game_code() returned
security_key(buf) ==
    With(read_game_code(buf).code, LAMBDA game_code :
        IF game_code = MkU32(0, 0) THEN MkU32(0, 0)
        ELSE IF game_code = MkU32(0, 1)
             THEN read_u32(ReadBytes(buf, get_section(buf, TrainerInfo).section.offset + 2808, 4))
        ELSE game_code)

\* security_key_lower taking the upper two bytes
security_key_upper(buf) == read_u16(Slice(to_le_bytes32(security_key(buf)), 2, 4))

\* SaveFile::security_key_lower
security_key_lower(buf) == read_u16(Slice(to_le_bytes32(security_key(buf)), 0, 2))

\* the outcomes of an operation: Ok(value), Err(error), or an abort
Ok(v) == [status |-> "ok", value |-> v]
Err(e) == [status |-> "err", error |-> e]
Abort == [status |-> "panic"]

\* SaveFile::get_party: Ok(list of records), Err or abort
get_party(buf) ==
    With(read_game_code(buf), LAMBDA gc :
    With(get_section(buf, TeamItems), LAMBDA s :
        IF ~gc.some THEN Err(<<"SectionNotFound", TrainerInfo>>)
        ELSE IF ~s.some THEN Abort
        ELSE With(s.section.offset + (IF gc.code = MkU32(0, 1) THEN 56 ELSE 568), LAMBDA base :
             With(SubSeq([i \in 1..6 |->
                             Pokemon_new(base + (i - 1) * 100,
                                         ReadBytes(buf, base + (i - 1) * 100, 100))], 1, 6),
                  LAMBDA team :
                 IF \E i \in 1..6 : ~team[i].ok THEN Abort
                 ELSE Ok([i \in 1..6 |-> team[i].p])))))

\* pc_box tagging the records with their position in the file: the offset
\* of the section that holds the slot's first byte plus the position in it
pc_box_physical(pc, number) ==
    IF pc.data.len < 33604 THEN Abort
    ELSE IF number > 13 THEN Abort
    ELSE With(SubSeq([i \in 1..30 |->
                        Pokemon_new(pc.buffer[((4 + number * 2400 + (i - 1) * 80)
                                               \div PC_BUFFER_SECTION_SIZE) + 1].offset
                                    + ((4 + number * 2400 + (i - 1) * 80) % PC_BUFFER_SECTION_SIZE),
                                    ReadBytes(pc.data, 4 + number * 2400 + (i - 1) * 80, 80))],
                     1, 30), LAMBDA list :
             IF \E i \in 1..30 : ~list[i].ok THEN Abort
             ELSE Ok([i \in 1..30 |-> list[i].p]))

\* PCBuffer::pc_box(number): Ok(list of 30 records) or abort
pc_box(pc, number) ==
    IF pc.data.len < 33604 THEN Abort
    ELSE IF number > 13 THEN Abort
    ELSE With(SubSeq([i \in 1..30 |->
                        Pokemon_new(4 + number * 2400 + (i - 1) * 80,
                                    ReadBytes(pc.data, 4 + number * 2400 + (i - 1) * 80, 80))],
                     1, 30), LAMBDA list :
             IF \E i \in 1..30 : ~list[i].ok THEN Abort
             ELSE Ok([i \in 1..30 |-> list[i].p]))

\* the loop of PCBuffer::save_pokemon from chunk i on: [status, buf]; the
\* chunks before i are already written when a later copy_from_slice aborts
RECURSIVE SplitBack(_, _, _)
SplitBack(pc, buf, i) ==
    LET start == i * PC_BUFFER_SECTION_SIZE
        n == IF pc.data.len - start < PC_BUFFER_SECTION_SIZE
             THEN pc.data.len - start ELSE PC_BUFFER_SECTION_SIZE
        size == IF i = 8 THEN PC_BUFFER_I_SECTION_SIZE ELSE PC_BUFFER_SECTION_SIZE
    IN  IF start >= pc.data.len THEN [status |-> "ok", buf |-> buf]
        ELSE IF i >= Len(pc.buffer) THEN [status |-> "panic", buf |-> buf]
        ELSE IF pc.buffer[i + 1].offset + size > buf.len THEN [status |-> "panic", buf |-> buf]
        ELSE IF n # size THEN [status |-> "panic", buf |-> buf]
        ELSE IF ~SectionInBounds(pc.buffer[i + 1], buf) THEN [status |-> "panic", buf |-> buf]
        ELSE SplitBack(pc,
                       write_checksum(pc.buffer[i + 1],
                                      CopyRange(buf, pc.buffer[i + 1].offset, pc.data, start, n)),
                       i + 1)

\* PCBuffer::save_pokemon splitting the buffer back before the record is in it
PCBuffer_save_pokemon_stale(pc, pokemon, buf) ==
    IF pokemon.offset + 80 > pc.data.len
    THEN [status |-> "panic", pc |-> pc, buf |-> buf]
    ELSE With([pc EXCEPT !.data = WriteBytes(@, pokemon.offset, raw_data(pokemon))],
              LAMBDA pc1 :
         With(SplitBack(pc, buf, 0), LAMBDA r :
             [status |-> r.status, pc |-> pc1, buf |-> r.buf]))

\* PCBuffer::save_pokemon writing the record to the file and not to self.data
PCBuffer_save_pokemon_uncached(pc, pokemon, buf) ==
    IF pokemon.offset + 80 > pc.data.len
    THEN [status |-> "panic", pc |-> pc, buf |-> buf]
    ELSE With([pc EXCEPT !.data = WriteBytes(@, pokemon.offset, raw_data(pokemon))],
              LAMBDA pc1 :
         With(SplitBack(pc1, buf, 0), LAMBDA r :
             [status |-> r.status, pc |-> pc, buf |-> r.buf]))

\* PCBuffer::save_pokemon: [status, pc, buf]
PCBuffer_save_pokemon(pc, pokemon, buf) ==
    IF pokemon.offset + 80 > pc.data.len
    THEN [status |-> "panic", pc |-> pc, buf |-> buf]
    ELSE With([pc EXCEPT !.data = WriteBytes(@, pokemon.offset, raw_data(pokemon))],
              LAMBDA pc1 :
         With(SplitBack(pc1, buf, 0), LAMBDA r :
             [status |-> r.status, pc |-> pc1, buf |-> r.buf]))

\* SaveFile::save_pokemon: [status, pc, buf]
StorageTypes == {"PC", "Party", "None"}
save_pokemon(pc, buf, storage, pokemon) ==
    CASE storage = "Party" ->
            IF pokemon.offset + 100 > buf.len
            THEN [status |-> "panic", pc |-> pc, buf |-> buf]
            ELSE IF Len(raw_data(pokemon)) # 100     \* copy_from_slice length check
            THEN [status |-> "panic", pc |-> pc, buf |-> buf]
            ELSE With(WriteBytes(buf, pokemon.offset, raw_data(pokemon)), LAMBDA buf1 :
                 With(get_section(buf1, TeamItems), LAMBDA s :
                     IF ~s.some THEN [status |-> "panic", pc |-> pc, buf |-> buf1]
                     ELSE [status |-> "ok", pc |-> pc,
                           buf |-> write_checksum(s.section, buf1)]))
      [] storage = "PC" -> PCBuffer_save_pokemon(pc, pokemon, buf)
      [] OTHER -> [status |-> "ok", pc |-> pc, buf |-> buf]

\* SaveFile::pocket: Ok(list), Err or abort
pocket(buf, kind) ==
    With(read_game_code(buf), LAMBDA gc :
    With(get_section(buf, TeamItems), LAMBDA s :
        IF ~gc.some THEN Abort
        ELSE IF ~s.some THEN Err(<<"SectionNotFound", TeamItems>>)
        ELSE With(pocket_address(kind, gc.code), LAMBDA addr :
             With(decrypt_pocket(ReadBytes(buf, s.section.offset + addr[1], addr[2] - addr[1]),
                                 security_key_lower(buf)), LAMBDA bag :
                 IF ~bag.ok THEN Err(<<bag.err>>) ELSE Ok(bag.list)))))

\* SaveFile::save_pocket: [status, buf] with status ok, err or panic
save_pocket(buf, kind, pocket_list) ==
    With(read_game_code(buf), LAMBDA gc :
    With(get_section(buf, TeamItems), LAMBDA s :
        IF ~gc.some THEN [status |-> "panic", buf |-> buf]
        ELSE IF ~s.some
             THEN [status |-> "err", error |-> <<"SectionNotFound", TeamItems>>, buf |-> buf]
        ELSE With(pocket_address(kind, gc.code), LAMBDA addr :
             With(encrypt_pocket(pocket_list, security_key_lower(buf)), LAMBDA encrypted_bag :
                 IF Len(encrypted_bag) # addr[2] - addr[1] THEN [status |-> "panic", buf |-> buf]
                 ELSE [status |-> "ok",
                       buf |-> write_checksum(s.section,
                                  WriteBytes(buf, s.section.offset + addr[1],
                                             encrypted_bag))]))))

-----------------------------------------------------------------------------
(* Inputs of the entity-record codec                                       *)

MaxEdits == 2            \* field mutators applied to one decoded record

\* src/src/test.rs: the first 80 bytes of the TORCHIK fixture
TORCHIK == <<
    101, 231, 167, 198, 154, 166, 220, 6, 206, 201, 204, 189, 194, 195, 189, 255, 1, 0, 2, 2,
    195, 213, 226, 255, 255, 255, 255, 0, 49, 30, 0, 0, 255, 65, 123, 193, 255, 65, 123, 192,
    255, 65, 123, 192, 231, 64, 123, 192, 103, 65, 123, 192, 255, 7, 123, 192, 255, 81, 254,
    225, 69, 32, 147, 217, 255, 65, 123, 192, 245, 65, 86, 192, 255, 65, 123, 192, 220, 105,
    123, 192 >>

\* a 12-byte group; every group starts with the species id so that the
\* record decodes whichever group the key makes the Growth group
PlainGroup(species, j) ==
    <<species % 256, species \div 256, j, 0, 10 * j, 3, 0, 64 * j, 0, 70, j, 0>>

PlainSubstructure(species) ==
    PlainGroup(species, 0) \o PlainGroup(species, 1)
    \o PlainGroup(species, 2) \o PlainGroup(species, 3)

\* an 80-byte slot: header fields, then the substructure encrypted with
\* trainer id XOR personality value; stored checksum valid or stale
MakeSlot(pv, ot, species, valid) ==
    LET plain == PlainSubstructure(species)
        sum   == SumWords16(plain, 24)
        chk   == IF valid THEN sum ELSE (sum + 1) % U16
    IN  to_le_bytes32(pv) \o to_le_bytes32(ot)
        \o <<206, 201, 204, 189, 194, 195, 189, 255, 1, 0>> \o <<2>> \o <<2>>
        \o <<195, 213, 226, 255, 255, 255, 255>> \o <<0>>
        \o to_le_bytes16(chk) \o <<0, 0>>
        \o pokemon_data_encryption(Xor32(ot, pv), plain)

\* 2400000000 + k: 2400000000 = 0x8F0D1800 is a multiple of 24
PersonalityValue(k) == MkU32(36621, 6144 + k)
PermutationKeys == 0..23
TrainerIds == {MkU32(1756, 42650)}      \* 115123866, the fixture's trainer id
SpeciesIds == {280}

CodecSlots ==
    {MakeSlot(PersonalityValue(k), ot, s, v) :
        k \in PermutationKeys, ot \in TrainerIds, s \in SpeciesIds, v \in BOOLEAN}
    \cup {TORCHIK, MakeSlot(MkU32(0, 0), MkU32(0, 0), 0, TRUE),
          \* species id 500: above 276 and not in SPECIES
          MakeSlot(PersonalityValue(5), MkU32(0, 7), 500, TRUE),
          \* species id 5: the first byte of the Miscellaneous group has
          \* no strain and 5 days
          MakeSlot(PersonalityValue(3), MkU32(0, 7), 5, TRUE),
          \* a slice one byte short of a slot
          SubSeq(TORCHIK, 1, 79)}

FriendshipValues == {0, 255}
Strains == {1, 15}            \* values drawn from rng.gen_range(1..=15)

-----------------------------------------------------------------------------
(* State that a specification leaves unused                                *)

EmptyBuffer == MkBuffer(0, << >>)
\* PCBuffer::default()
NoPCBuffer == [buffer |-> [i \in 1..9 |-> [offset |-> 0, size |-> 0]],
               data |-> MkBuffer(0, << >>)]
\* ret: the last operation, how it ended (ok, err, panic) and what it gave
Result(op, status, detail) == [op |-> op, status |-> status, detail |-> detail]
Idle == Result("init", "ok", << >>)
Done(op) == Result(op, "ok", << >>)
Aborted(op) == Result(op, "panic", << >>)
Returned(op) == ret.op = op /\ ret.status = "ok"

-----------------------------------------------------------------------------
(* Operations on the record the caller holds                               *)

\* raw_data takes &self and returns a copy: the caller encodes last
Holding == pk # NoPokemon /\ ret.status = "ok" /\ ret.op # "raw_data"

Mutate(q) ==
    /\ Holding
    /\ edits < MaxEdits
    /\ pk' = q
    /\ edits' = edits + 1
    /\ fresh' = FALSE
    /\ UNCHANGED <<data, pc_buffer, slot, writes, out, ret, pocket_in, entries>>

SetFriendship == \E v \in FriendshipValues : Mutate(set_friendship(pk, v))

InfectPokerus == \E s \in Strains : Mutate(infect_pokerus(pk, s))

CurePokerus == Mutate(cure_pokerus(pk))

RemovePokerus == Mutate(remove_pokerus(pk))

UpdateChecksum ==
    /\ Holding
    /\ pk' = update_checksum(pk)
    /\ fresh' = TRUE
    /\ UNCHANGED <<data, pc_buffer, slot, edits, writes, out, ret, pocket_in, entries>>

RawData ==
    /\ Holding
    /\ out' = raw_data(pk)
    /\ ret' = Done("raw_data")
    /\ UNCHANGED <<data, pc_buffer, pk, slot, edits, writes, fresh, pocket_in, entries>>

-----------------------------------------------------------------------------
(* SpecCodec: decode one slot, mutate, re-encode                           *)

InitCodec ==
    /\ slot \in CodecSlots
    /\ pk = NoPokemon
    /\ edits = 0
    /\ writes = 0
    /\ fresh = FALSE
    /\ out = << >>
    /\ ret = Idle
    /\ data = EmptyBuffer
    /\ pc_buffer = NoPCBuffer
    /\ pocket_in = << >>
    /\ entries = << >>

\* Pokemon::new on the slot
Decode ==
    /\ pk = NoPokemon
    /\ ret.op = "init"
    /\ LET r == Pokemon_new(0, slot)
       IN  IF r.ok
           THEN pk' = r.p /\ ret' = Done("new")
           ELSE pk' = pk /\ ret' = Aborted("new")
    /\ UNCHANGED <<data, pc_buffer, slot, edits, writes, fresh, out, pocket_in, entries>>

NextCodec ==
    \/ Decode
    \/ SetFriendship
    \/ InfectPokerus
    \/ CurePokerus
    \/ RemovePokerus
    \/ UpdateChecksum
    \/ RawData

SpecCodec == InitCodec /\ [][NextCodec]_vars

C8_ReencodeRecomputesChecksum ==
    (Returned("raw_data") /\ edits > 0)
        => read_u16(Slice(out, 28, 30)) = PokemonData_checksum(pk.pokemon_data)

-----------------------------------------------------------------------------
(* Input save files                                                         *)

MaxWrites == 1           \* save_pokemon / save_pocket calls in one run

\* the 20 bytes that follow the 80-byte record in a 100-byte party slot
PartyTail == <<0, 0, 0, 0, 5, 255, 20, 0, 20, 0, 11, 0, 10, 0, 9, 0, 14, 0, 10, 0>>

GameCodes == {MkU32(0, 0), MkU32(0, 1), MkU32(34661, 17185)}
FrLgSecurityKey == MkU32(43981, 4660)
Malformations == {"no_trainer_info", "no_team_items", "two_pc_a", "two_pc_i", "no_pc_i"}

\* the type id stored in the footer of the section that holds type t
StoredId(t, mal) ==
    CASE mal = "no_trainer_info" /\ t = 0 -> 99
      [] mal = "no_team_items" /\ t = 1 -> 99
      [] mal = "two_pc_a" /\ t = 13 -> 5
      [] mal = "two_pc_i" /\ t = 12 -> 13
      [] mal = "no_pc_i" /\ t = 13 -> 99
      [] OTHER -> t

\* offset of the section of type t in a block whose storage order is rotated
SectionOffsetOf(base, rot, t) == base + ((t + 14 - rot) % 14) * SECTION_SIZE

\* physical offset of logical PC-buffer byte L
PhysicalOf(base, rot, L) ==
    SectionOffsetOf(base, rot, 5 + (L \div PC_BUFFER_SECTION_SIZE)) + (L % PC_BUFFER_SECTION_SIZE)

Place(off, s) == {<<off + i - 1, s[i]>> : i \in {j \in 1..Len(s) : s[j] # 0}}
PlacePC(base, rot, L, s) ==
    {<<PhysicalOf(base, rot, L + i - 1), s[i]>> : i \in {j \in 1..Len(s) : s[j] # 0}}

PCSlotOffset(n, i) == 4 + n * 2400 + i * 80

\* the bytes of one block: footers, trainer info, party, one pocket entry,
\* four stored records (two of them across a section boundary) and markers
BlockPairs(base, cfg, index) ==
    LET rot == cfg.rot
        ti == SectionOffsetOf(base, rot, TrainerInfo)
        tm == SectionOffsetOf(base, rot, TeamItems)
        party == IF cfg.game = MkU32(0, 1) THEN 56 ELSE 568
        items == pocket_address("Items", cfg.game)[1]
        ot == MkU32(1756, 42650)
    IN  UNION {Place(SectionOffsetOf(base, rot, t) + 4084,
                     to_le_bytes16(StoredId(t, cfg.mal)) \o <<0, 0>>
                     \o <<37, 32, 1, 8>> \o to_le_bytes32(index)) : t \in 0..13}
        \cup Place(ti, <<195, 213, 226, 255>>)
        \cup Place(ti + 10, to_le_bytes32(ot))
        \cup Place(ti + 172, to_le_bytes32(cfg.game))
        \cup Place(ti + 2808, to_le_bytes32(FrLgSecurityKey))
        \cup Place(tm + party, TORCHIK \o PartyTail)
        \cup Place(tm + party + 100, MakeSlot(PersonalityValue(7), ot, 280, TRUE) \o PartyTail)
        \cup Place(tm + items, <<13, 0, 5, 0>>)
        \cup PlacePC(base, rot, 0, <<3>>)
        \cup PlacePC(base, rot, PCSlotOffset(0, 0), MakeSlot(PersonalityValue(5), ot, 280, TRUE))
        \cup PlacePC(base, rot, PCSlotOffset(1, 19), TORCHIK)
        \cup PlacePC(base, rot, PCSlotOffset(13, 6), MakeSlot(PersonalityValue(23), ot, 280, FALSE))
        \cup PlacePC(base, rot, 33743, <<119>>)
        \cup UNION {Place(SectionOffsetOf(base, rot, t) + 3970, <<85>>) : t \in 5..12}
        \cup Place(SectionOffsetOf(base, rot, PCbufferI) + 2000, <<153>>)

\* the pages of the buffer whose non-zero bytes are the pairs P
FromPairs(P) ==
    [p \in {PageOf(q[1]) : q \in P} |->
        LET Q == {q \in P : PageOf(q[1]) = p}
        IN  [o \in {q[1] : q \in Q} |-> (CHOOSE q \in Q : q[1] = o)[2]] @@ << >>] @@ << >>

\* the 128 KB of a save file
FileSize == 32 * SECTION_SIZE

\* the checksum fields of the 28 sections, valid for the bytes P
ChecksumPairs(raw) ==
    UNION {Place(k * SECTION_SIZE + 4086,
                 to_le_bytes16(Section_checksum(Section(k * SECTION_SIZE), raw))) :
             k \in 0..(2 * NUMBER_GAME_SAVE_SECTIONS - 1)}

Checksummed(P) ==
    With(MkBuffer(FileSize, FromPairs(P)), LAMBDA raw :
        MkBuffer(FileSize, FromPairs(P \cup ChecksumPairs(raw))))

\* a 128 KB save file; cfg = [rot, game, mal, index_a, index_b]
SaveBuffer(cfg) ==
    Checksummed(BlockPairs(GAME_SAVE_A_OFFSET, cfg, cfg.index_a)
                \cup BlockPairs(GAME_SAVE_B_OFFSET, cfg, cfg.index_b))

Config(rot, game, mal, a, b) ==
    [rot |-> rot, game |-> game, mal |-> mal, index_a |-> a, index_b |-> b]

\* well-formed files with block A or block B current, for each game family,
\* and malformed current blocks
SaveConfigs ==
    {Config(0, g, "none", MkU32(0, 2), MkU32(0, 1)) : g \in GameCodes}
    \cup {Config(9, g, "none", MkU32(0, 1), MkU32(0, 2)) : g \in GameCodes}
    \cup {Config(9, MkU32(34661, 17185), m, MkU32(0, 1), MkU32(0, 2)) : m \in Malformations}

\* the first n bytes of buf
Truncate(buf, n) ==
    MkBuffer(n, [p \in {q \in DOMAIN buf.pages : \E o \in DOMAIN buf.pages[q] : o < n} |->
                    [o \in {x \in DOMAIN buf.pages[p] : x < n} |-> buf.pages[p][o]] @@ << >>]
                @@ << >>)

\* files cut short: empty, within the first section, within the first
\* section of block B, and one byte short of the two blocks
ShortLengths == {0, SECTION_SIZE - 1, GAME_SAVE_B_OFFSET + SECTION_SIZE - 1, FileSize - 16385}

\* cut short with block A current and, one byte short, with block B current
ShortBuffers ==
    {Truncate(SaveBuffer(Config(0, MkU32(0, 0), "none", MkU32(0, 2), MkU32(0, 1))), n) :
        n \in ShortLengths}
    \cup {Truncate(SaveBuffer(Config(9, MkU32(0, 1), "none", MkU32(0, 1), MkU32(0, 2))),
                   FileSize - 16385)}

-----------------------------------------------------------------------------
(* SaveFile: construction, queries and writes                              *)

Init ==
    /\ data \in {SaveBuffer(cfg) : cfg \in SaveConfigs} \cup ShortBuffers
    /\ pc_buffer = NoPCBuffer
    /\ pk = NoPokemon
    /\ slot = << >>
    /\ edits = 0
    /\ writes = 0
    /\ fresh = FALSE
    /\ out = << >>
    /\ ret = Idle
    /\ pocket_in = << >>
    /\ entries = << >>

\* SaveFile::new(data)
Constructed(r) ==
    IF r.ok
    THEN pc_buffer' = r.pc /\ ret' = Done("new")
    ELSE pc_buffer' = pc_buffer /\ ret' = Aborted("new")

New ==
    /\ ret.op = "init"
    /\ Constructed(SaveFile_new(data))
    /\ UNCHANGED <<data, pk, slot, edits, writes, fresh, out, pocket_in, entries>>

\* a SaveFile exists and no call on it has aborted
Live == ret.op \in {"new", "save_pokemon", "save_pocket"} /\ ret.status # "panic"

\* a query takes &self: the caller's run ends with the value it returns
Query(result) ==
    /\ Live
    /\ ret' = result
    /\ UNCHANGED <<data, pc_buffer, pk, slot, edits, writes, fresh, out, pocket_in, entries>>

\* what the caller of a query gets: the offsets of the records, the values
\* of a pocket, the error, or nothing when the query aborted
Offsets(list) == [i \in 1..Len(list) |-> list[i].offset]
Records(op, r) ==
    Result(op, r.status,
           IF r.status = "ok" THEN Offsets(r.value)
           ELSE IF r.status = "err" THEN r.error ELSE << >>)
Values(op, r) ==
    Result(op, r.status,
           IF r.status = "ok" THEN r.value
           ELSE IF r.status = "err" THEN r.error ELSE << >>)
Bytes(op, s, at, n) ==
    IF s.some THEN Result(op, "ok", ReadBytes(data, s.section.offset + at, n))
    ELSE Aborted(op)

GetParty == Query(Records("get_party", get_party(data)))

BoxNumbers == {0, 1, 13}
\* what the caller of pc_box(number) gets: the offsets of the 30 records
BoxRecords(number, r) ==
    Result("pc_box", r.status,
           IF r.status = "ok" THEN [number |-> number, offsets |-> Offsets(r.value)]
           ELSE << >>)
PcBox == \E n \in BoxNumbers : Query(BoxRecords(n, pc_box(pc_buffer, n)))

\* SaveFile::game_code: expect() aborts when TrainerInfo is missing
GameCode == Query(Bytes("game_code", get_section(data, TrainerInfo), 172, 4))

\* SaveFile::ot_name
OtName == Query(Bytes("ot_name", get_section(data, TrainerInfo), 0, 7))

\* SaveFile::ot_id
OtId == Query(Bytes("ot_id", get_section(data, TrainerInfo), 10, 4))

PocketQuery == \E kind \in Pockets : Query(Values("pocket", pocket(data, kind)))

\* the record a caller passes to save_pokemon: one it got from get_party or
\* pc_box, after the edits named by e
ApplyEdit(e, p) ==
    CASE e = "none" -> p
      [] e = "friendship" -> set_friendship(p, 255)
      [] e = "friendship_checksum" -> update_checksum(set_friendship(p, 255))

\* where the record comes from: party member i (1..6) or box n, slot i (0..29)
PartySource(i) == [kind |-> "party", n |-> 0, i |-> i]
PCSource(n, i) == [kind |-> "pc", n |-> n, i |-> i]

SaveCall(storage, src, e) == [storage |-> storage, src |-> src, edit |-> e]
SaveCalls ==
    {SaveCall("PC", PCSource(0, 0), "none"),
     SaveCall("PC", PCSource(0, 0), "friendship"),
     SaveCall("PC", PCSource(1, 19), "friendship"),
     SaveCall("PC", PCSource(1, 19), "friendship_checksum"),
     SaveCall("PC", PCSource(13, 6), "none"),
     SaveCall("PC", PCSource(13, 6), "friendship_checksum"),
     SaveCall("PC", PCSource(13, 29), "friendship"),
     SaveCall("PC", PartySource(1), "none"),
     SaveCall("Party", PartySource(1), "none"),
     SaveCall("Party", PartySource(2), "friendship_checksum"),
     SaveCall("Party", PCSource(0, 0), "none"),
     SaveCall("None", PartySource(1), "none")}

\* the state after save_pokemon(call.storage, r) ended as res; p is the
\* record as the query returned it, r the record after the caller's edits
Saved(call, p, r, res) ==
    /\ data' = res.buf
    /\ pc_buffer' = res.pc
    /\ pk' = r
    /\ slot' = raw_data(p)
    /\ out' = raw_data(r)
    /\ edits' = IF call.edit = "none" THEN 0 ELSE 1
    /\ fresh' = (call.edit = "friendship_checksum")
    /\ ret' = Result("save_pokemon", res.status, call)

SaveRecord(call, p, r) == Saved(call, p, r, save_pokemon(pc_buffer, data, call.storage, r))

\* position in the list the query returned
SourceIndex(src) == IF src.kind = "party" THEN src.i ELSE src.i + 1

SaveFrom(call, fetched) ==
    /\ fetched.status = "ok"
    /\ SaveRecord(call, fetched.value[SourceIndex(call.src)],
                  ApplyEdit(call.edit, fetched.value[SourceIndex(call.src)]))

\* the lists the caller's queries return: the party, then the boxes
SaveAny(party, boxes) ==
    \E call \in SaveCalls :
        SaveFrom(call, IF call.src.kind = "party" THEN party ELSE boxes[call.src.n])

\* SaveFile::save_pokemon(storage, record)
SavePokemon ==
    /\ Live
    /\ writes < MaxWrites
    /\ SaveAny(get_party(data), [n \in BoxNumbers |-> pc_box(pc_buffer, n)] @@ << >>)
    /\ writes' = writes + 1
    /\ UNCHANGED <<pocket_in, entries>>

\* pocket lists a caller passes: the length the pocket holds, or one entry
PocketLength(kind, gc) ==
    (pocket_address(kind, IF gc.some THEN gc.code ELSE MkU32(0, 0))[2]
     - pocket_address(kind, IF gc.some THEN gc.code ELSE MkU32(0, 0))[1]) \div 4
PocketList(n) ==
    [k \in 1..n |-> IF k = 1 THEN <<"Potion", 7>>
                    ELSE IF k = n THEN <<"Master Ball", 999>>
                    ELSE <<"Unknown", 0>>]
PocketLists(kind, gc) == {PocketList(PocketLength(kind, gc)), PocketList(1)}

PocketSaved(kind, list, res) ==
    /\ data' = res.buf
    /\ ret' = Result("save_pocket", res.status,
                     IF res.status = "err" THEN res.error ELSE kind)
    /\ entries' = list

\* SaveFile::save_pocket(kind, list)
SavePocket ==
    /\ Live
    /\ writes < MaxWrites
    /\ \E kind \in Pockets :
         \E list \in PocketLists(kind, read_game_code(data)) :
            PocketSaved(kind, list, save_pocket(data, kind, list))
    /\ writes' = writes + 1
    /\ UNCHANGED <<pc_buffer, pk, slot, edits, fresh, out, pocket_in>>

\* Spec: one SaveFile and the writes made through it
Next ==
    \/ New
    \/ SavePokemon
    \/ SavePocket

Spec == Init /\ [][Next]_vars

\* SpecRead: one SaveFile and one query on it
NextRead ==
    \/ New
    \/ GetParty
    \/ PcBox
    \/ GameCode
    \/ OtName
    \/ OtId
    \/ PocketQuery

SpecRead == Init /\ [][NextRead]_vars

-----------------------------------------------------------------------------
(* SpecSelect: the choice of the current block                             *)

\* save-index values: the extremes, neighbours, and values whose order
\* differs between the little-endian bytes and the number
SaveIndexes ==
    {MkU32(0, 0), MkU32(0, 1), MkU32(0, 2), MkU32(0, 255), MkU32(0, 256), MkU32(0, 65535),
     MkU32(1, 0), MkU32(1, 1), MkU32(32768, 0), MkU32(65535, 65534), MkU32(65535, 65535)}

\* a file that holds nothing but the save index of the first section of
\* each block
IndexBuffer(a, b) ==
    MkBuffer(FileSize,
             FromPairs(Place(GAME_SAVE_A_OFFSET + 4092, to_le_bytes32(a))
                       \cup Place(GAME_SAVE_B_OFFSET + 4092, to_le_bytes32(b))))

\* a file whose 28 footers hold the type ids in rotated order and a save
\* index: a0 (b0) in the section of type 0, a (b) in the 13 others of block
\* A (B); the indexes of a block differ when a save was interrupted
RotatedIndexes == {MkU32(0, 1), MkU32(0, 2), MkU32(0, 3)}
SelectRotations == {0, 9}

FooterPairs(base, rot, first, others) ==
    UNION {Place(SectionOffsetOf(base, rot, t) + 4084,
                 to_le_bytes16(t) \o <<0, 0>> \o <<37, 32, 1, 8>>
                 \o to_le_bytes32(IF t = 0 THEN first ELSE others)) : t \in 0..13}

RotatedIndexBuffer(rot, a0, a, b0, b) ==
    MkBuffer(FileSize,
             FromPairs(FooterPairs(GAME_SAVE_A_OFFSET, rot, a0, a)
                       \cup FooterPairs(GAME_SAVE_B_OFFSET, rot, b0, b)))

InitSelect ==
    /\ data \in {IndexBuffer(a, b) : a, b \in SaveIndexes}
               \cup {RotatedIndexBuffer(rot, a0, a, b0, b) :
                        rot \in SelectRotations, a0, a, b0, b \in RotatedIndexes}
    /\ pc_buffer = NoPCBuffer
    /\ pk = NoPokemon
    /\ slot = << >>
    /\ edits = 0
    /\ writes = 0
    /\ fresh = FALSE
    /\ out = << >>
    /\ ret = Idle
    /\ pocket_in = << >>
    /\ entries = << >>

\* SaveFile::current_save: which of the two arrays it returns
CurrentSave ==
    /\ ret.op = "init"
    /\ ret' = Result("current_save", "ok",
                     IF current_save(data) = game_save_a THEN "A" ELSE "B")
    /\ UNCHANGED <<data, pc_buffer, pk, slot, edits, writes, fresh, out, pocket_in, entries>>

NextSelect == CurrentSave

SpecSelect == InitSelect /\ [][NextSelect]_vars

\* the four bytes of the save index of the first section of a block
IndexBytes(base) == ReadBytes(data, base + 4092, 4)

\* a is the greater little-endian number: the bytes differ, and at the most
\* significant byte that differs a's is the greater
NewerBytes(a, b) == \E k \in 1..4 : a[k] > b[k] /\ \A j \in (k + 1)..4 : a[j] = b[j]

\* C1: for every pair (a, b) of save indexes read from block A and block B,
\* current_save picks block A iff a is not 2^32-1 and a > b, and picks block
\* B in every other case, a = b and a = 2^32-1 included.
C1_BlockSelection ==
    Returned("current_save") =>
        /\ ret.detail \in {"A", "B"}
        /\ (ret.detail = "A") <=>
              (/\ IndexBytes(GAME_SAVE_A_OFFSET) # <<255, 255, 255, 255>>
               /\ NewerBytes(IndexBytes(GAME_SAVE_A_OFFSET), IndexBytes(GAME_SAVE_B_OFFSET)))

\* block A holds 2^32-1, greater than block B's index, and block B is picked
C1_Witness ==
    /\ Returned("current_save")
    /\ IndexBytes(GAME_SAVE_A_OFFSET) = <<255, 255, 255, 255>>
    /\ IndexBytes(GAME_SAVE_B_OFFSET) = <<2, 0, 0, 0>>
    /\ ret.detail = "B"

-----------------------------------------------------------------------------
(* SpecPocket: encrypt_pocket, then decrypt_pocket                         *)

MaxPocketLen == 2        \* entries in one pocket list

ItemIds == {0, 1, 13, 65535}        \* 65535: an id the item table does not know
Quantities == {0, 999, 65535}
SecurityKeys == {0, 4660, 65535}

PocketItems ==
    UNION {[1..n -> ItemIds \X Quantities] : n \in 0..MaxPocketLen}

\* the (name, quantity) list the program holds for items given by their ids
PocketEntries(items) ==
    [k \in 1..Len(items) |-> <<find_item_or_unknown(items[k][1]), items[k][2]>>]

InitPocket ==
    /\ pocket_in \in {[key |-> key, items |-> items] :
                        key \in SecurityKeys, items \in PocketItems}
    /\ entries = << >>
    /\ out = << >>
    /\ ret = Idle
    /\ data = EmptyBuffer
    /\ pc_buffer = NoPCBuffer
    /\ pk = NoPokemon
    /\ slot = << >>
    /\ edits = 0
    /\ writes = 0
    /\ fresh = FALSE

\* SaveFile::encrypt_pocket(list, key)
EncryptPocket ==
    /\ ret.op = "init"
    /\ out' = encrypt_pocket(PocketEntries(pocket_in.items), pocket_in.key)
    /\ ret' = Done("encrypt_pocket")
    /\ UNCHANGED <<data, pc_buffer, pk, slot, edits, writes, fresh, pocket_in, entries>>

\* SaveFile::decrypt_pocket(bytes, key) on the bytes encrypt_pocket gave
DecryptPocket ==
    /\ Returned("encrypt_pocket")
    /\ LET r == decrypt_pocket(out, pocket_in.key)
       IN  IF r.ok
           THEN entries' = r.list /\ ret' = Done("decrypt_pocket")
           ELSE entries' = entries /\ ret' = Result("decrypt_pocket", "err", <<r.err>>)
    /\ UNCHANGED <<data, pc_buffer, pk, slot, edits, writes, fresh, out, pocket_in>>

NextPocket ==
    \/ EncryptPocket
    \/ DecryptPocket

SpecPocket == InitPocket /\ [][NextPocket]_vars

\* C6 (as claimed): for every list of (item, quantity) entries with arbitrary
\* 16-bit item ids and quantities and every 16-bit key, decrypting the
\* encrypted list gives the same entries: the encoding carries every entry's
\* item id, and the decoded list is the list that was encoded, quantity by
\* quantity, also for item ids the item table does not know.
C6_PocketSymmetry ==
    ret.op = "decrypt_pocket" =>
        /\ ret.status = "ok"
        /\ entries = PocketEntries(pocket_in.items)
        /\ \A k \in 1..Len(pocket_in.items) :
              /\ read_u16(Slice(out, 4 * k - 4, 4 * k - 2)) = pocket_in.items[k][1]
              /\ entries[k][2] = pocket_in.items[k][2]

-----------------------------------------------------------------------------
(* Properties of the writes and queries of SaveFile                        *)

\* the checksum field of a section and whether it is the checksum of the
\* section's payload
StoredChecksum(section, buf) == read_u16(ReadBytes(buf, section.offset + 4086, 2))
ChecksumValid(section, buf) == StoredChecksum(section, buf) = Section_checksum(section, buf)

\* r is how save_pokemon(StorageType::PC, ...) on a record of pc_box ended well
PCSave(r) ==
    /\ r.op = "save_pokemon"
    /\ r.status = "ok"
    /\ r.detail.storage = "PC"
    /\ r.detail.src.kind = "pc"

\* the bytes from..to of a and b are the same but for lo..hi
SameOutside(a, b, lo, hi, from, to) ==
    LET A == {o \in NonZero(a, from, to) : o < lo \/ o > hi}
        B == {o \in NonZero(b, from, to) : o < lo \/ o > hi}
    IN  A = B /\ \A o \in A : Rd(a, o) = Rd(b, o)

\* C3 (as claimed): for every record r that get_party() returned,
\* save_pokemon(StorageType::Party, r) returns Ok, leaves r's re-encoded 80
\* bytes in the backing buffer at r.offset(), and leaves the stored checksum
\* of the current block's team/items section equal to the checksum of its
\* payload.
C3_PartySave ==
    (ret.op = "save_pokemon" /\ ret.detail.storage = "Party" /\ ret.detail.src.kind = "party")
        => /\ ret.status = "ok"
           /\ ReadBytes(data, pk.offset, 80) = out
           /\ ChecksumValid(get_section(data, TeamItems).section, data)

\* before, after: the SaveFile rebuilt from the bytes before and after the
\* save of the record of box src.n, slot src.i, whose encoding is bytes
PCSaveRebuilt(before, after, src, bytes, buf) ==
    /\ before.ok
    /\ after.ok
    /\ With(pc_box(after.pc, src.n), LAMBDA box :
           /\ box.status = "ok"
           /\ raw_data(box.value[src.i + 1]) = bytes)
    /\ SameOutside(after.pc.data, before.pc.data,
                   PCSlotOffset(src.n, src.i), PCSlotOffset(src.n, src.i) + 79,
                   PCSlotOffset(0, 0), PCSlotOffset(13, 29) + 79)
    /\ \A k \in 1..9 : ChecksumValid(after.pc.buffer[k], buf)

\* C4: after a record r of pc_box(n)[i] is mutated and saved with
\* save_pokemon(StorageType::PC, r), a SaveFile rebuilt from the written bytes
\* has at pc_box(n)[i] a record whose 80 bytes are r.raw_data(), every other
\* slot holds the bytes it held, also when the slot lies across two
\* sections, and the stored checksum of each of the nine storage sections is
\* the checksum of its payload.
C4_PCSaveRebuilt ==
    [][PCSave(ret') =>
          PCSaveRebuilt(SaveFile_new(data), SaveFile_new(data'), ret'.detail.src, out', data')]_vars

\* the saved slot is box 1, slot 19, which ends in the next section; the
\* edit changed its bytes and both sections hold their part of them
C4_Witness ==
    /\ PCSave(ret)
    /\ ret.detail.src = PCSource(1, 19)
    /\ out # slot
    /\ PCSlotOffset(1, 19) < PC_BUFFER_SECTION_SIZE
    /\ PCSlotOffset(1, 19) + 80 > PC_BUFFER_SECTION_SIZE
    /\ ReadBytes(data, pc_buffer.buffer[1].offset + PCSlotOffset(1, 19), 44) = Slice(out, 0, 44)
    /\ ReadBytes(data, pc_buffer.buffer[2].offset, 36) = Slice(out, 44, 80)

\* the current block of buf holds each of the type ids 5..13 once
OnceEach(buf) ==
    \A t \in PCbufferA..PCbufferI :
        Cardinality({i \in 1..NUMBER_GAME_SAVE_SECTIONS :
                        Section_id(current_save(buf)[i], buf) = t}) = 1

SectionOfType(buf, t) ==
    current_save(buf)[CHOOSE i \in 1..NUMBER_GAME_SAVE_SECTIONS :
                          Section_id(current_save(buf)[i], buf) = t]

\* pc is the concatenation in type-id order of the first 3968 bytes of
\* sections 5..12 and the first 2000 bytes of section 13
Concatenated(pc, buf) ==
    /\ pc.data.len = 33744
    /\ \A t \in PCbufferA..PCbufferI :
          ReadBytes(pc.data, (t - PCbufferA) * 3968, IF t = PCbufferI THEN 2000 ELSE 3968)
            = ReadBytes(buf, SectionOfType(buf, t).offset, IF t = PCbufferI THEN 2000 ELSE 3968)

\* C5: for a current block that holds the type ids 5..13 once each, in any
\* rotated storage order, the PC buffer SaveFile::new builds is the
\* concatenation, in type-id order, of the first 3968 bytes of sections 5..12
\* and the first 2000 bytes of section 13, 33744 bytes in all; and a save of a
\* record that was not edited splits the buffer back without changing a byte
\* of the file.
C5_ConcatenateAndSplit ==
    [][/\ (ret'.op = "new" /\ ret'.status = "ok" /\ OnceEach(data'))
            => Concatenated(pc_buffer', data')
       /\ (PCSave(ret') /\ ret'.detail.edit = "none" /\ OnceEach(data))
            => data' = data]_vars

\* an unedited record was saved in a block stored in rotated order; the byte
\* after the 2000 that section 13 gives is still there
C5_Witness ==
    /\ PCSave(ret)
    /\ ret.detail.edit = "none"
    /\ OnceEach(data)
    /\ pc_buffer.data.len = 33744
    /\ pc_buffer.buffer[9].offset < pc_buffer.buffer[1].offset
    /\ Rd(pc_buffer.data, 33743) = 119
    /\ Rd(data, pc_buffer.buffer[9].offset + 2000) = 153

\* the low 16 bits of the security key, read from the trainer-info section
KeyLow(buf) ==
    With(get_section(buf, TrainerInfo).section.offset, LAMBDA ti :
    With(ReadBytes(buf, ti + 172, 4), LAMBDA code :
        IF code = <<0, 0, 0, 0>> THEN 0
        ELSE IF code = <<1, 0, 0, 0>> THEN Rd(buf, ti + 2808) + 256 * Rd(buf, ti + 2809)
        ELSE code[1] + 256 * code[2]))

\* C7: after a successful save_pocket(kind, entries), for each pocket and
\* game family, the stored checksum of the current block's team/items section
\* is the checksum of its payload, and the pocket's range holds the 4-byte
\* encodings of the entries: the item id, then the quantity XORed with the
\* low 16 bits of the security key.
C7_PocketSaved ==
    Returned("save_pocket") =>
        With(get_section(data, TeamItems).section, LAMBDA s :
        With(pocket_address(ret.detail, read_game_code(data).code), LAMBDA addr :
            /\ ChecksumValid(s, data)
            /\ 4 * Len(entries) = addr[2] - addr[1]
            /\ \A k \in 1..Len(entries) :
                  ReadBytes(data, s.offset + addr[1] + 4 * (k - 1), 4)
                    = to_le_bytes16(item_id_g3_or_0(entries[k][1]))
                      \o to_le_bytes16(Xor(entries[k][2], KeyLow(data)))))

\* the berries pocket of a FireRed/LeafGreen file, whose key is not zero
C7_Witness ==
    /\ Returned("save_pocket")
    /\ ret.detail = "Berries"
    /\ read_game_code(data).code = MkU32(0, 1)
    /\ KeyLow(data) = 4660
    /\ Len(entries) = 43
    /\ entries[43] = <<"Master Ball", 999>>
    /\ ReadBytes(data, get_section(data, TeamItems).section.offset + 1524, 4)
         = <<1, 0>> \o to_le_bytes16(Xor(999, 4660))

\* C9 (as claimed): a write (save_pokemon for Party or PC, save_pocket) that
\* does not complete leaves every byte of the backing buffer unchanged,
\* whatever its input: a record whose offset is out of range, a list whose
\* encoding is not as long as the pocket's range, a current block with
\* malformed storage sections.
C9_AllOrNothing ==
    [][(ret'.op \in {"save_pokemon", "save_pocket"} /\ ret'.status # "ok")
          => data' = data]_vars

\* the 28 sections of the file, and the footer fields that select the
\* current block and resolve a type id: the type id and the save index
AllSections == game_save_a \o game_save_b
FooterKeys(buf) ==
    [i \in 1..Len(AllSections) |->
        ReadBytes(buf, AllSections[i].offset + 4084, 2)
        \o ReadBytes(buf, AllSections[i].offset + 4092, 4)]

\* r is how a write ended well
WriteOk(r) == r.op \in {"save_pokemon", "save_pocket"} /\ r.status = "ok"

SameBytes(a, lo, b, off, n) ==
    /\ {o - lo : o \in NonZero(a, lo, lo + n - 1)} = {o - off : o \in NonZero(b, off, off + n - 1)}
    /\ \A o \in NonZero(a, lo, lo + n - 1) : Rd(a, o) = Rd(b, o - lo + off)

\* pc.data is, section by section in type-id order, the payload prefix of
\* the storage sections of the current block of buf
PrefixesCached(pc, buf) ==
    /\ pc.data.len = 8 * PC_BUFFER_SECTION_SIZE + PC_BUFFER_I_SECTION_SIZE
    /\ \A t \in PCbufferA..PCbufferI :
          SameBytes(pc.data, (t - PCbufferA) * PC_BUFFER_SECTION_SIZE,
                    buf, SectionOfType(buf, t).offset,
                    IF t = PCbufferI THEN PC_BUFFER_I_SECTION_SIZE ELSE PC_BUFFER_SECTION_SIZE)

\* the box the last write saved a record to, box 0 if there was none
LastBox ==
    IF ret.op = "save_pokemon" /\ ret.detail.src.kind = "pc" THEN ret.detail.src.n ELSE 0

Changed(a, b) ==
    {o \in NonZero(a, 0, a.len - 1) \cup NonZero(b, 0, b.len - 1) : Rd(a, o) # Rd(b, o)}

\* the two bytes of the checksum field of a section
ChecksumField(section) == {section.offset + 4086, section.offset + 4087}

\* what save_pocket(kind, ..) may change in buf: the pocket's range and the
\* checksum field of the team/items section of the current block
PocketFrame(buf, kind, D) ==
    With(get_section(buf, TeamItems), LAMBDA s :
    With(read_game_code(buf), LAMBDA gc :
        IF ~s.some \/ ~gc.some THEN D = {}
        ELSE With(pocket_address(kind, gc.code), LAMBDA addr :
                 \A o \in D :
                    \/ o >= s.section.offset + addr[1] /\ o < s.section.offset + addr[2]
                    \/ o \in ChecksumField(s.section))))

\* what save_pokemon(PC, ..) may change in buf: the payload prefixes and
\* checksum fields of the storage sections of the current block
StorageFrame(buf, D) ==
    With([t \in PCbufferA..PCbufferI |-> SectionOfType(buf, t)] @@ << >>, LAMBDA storage :
        \A o \in D : \E t \in PCbufferA..PCbufferI :
            \/ /\ o >= storage[t].offset
               /\ o < storage[t].offset
                      + (IF t = PCbufferI THEN PC_BUFFER_I_SECTION_SIZE
                         ELSE PC_BUFFER_SECTION_SIZE)
            \/ o \in ChecksumField(storage[t]))

\* no offset of D lies in the block that is not the current one of buf
CurrentBlockOnly(buf, D) ==
    With(IF current_save(buf) = game_save_a THEN GAME_SAVE_A_OFFSET ELSE GAME_SAVE_B_OFFSET,
         LAMBDA base :
        \A o \in D : o >= base /\ o < base + NUMBER_GAME_SAVE_SECTIONS * SECTION_SIZE)

\* what the write that ended as r may change, D being what it changed
WriteFrame(r, buf, D) ==
    /\ r.op = "save_pocket" => PocketFrame(buf, r.detail, D)
    /\ (r.op = "save_pokemon" /\ r.detail.storage = "PC" /\ OnceEach(buf)) => StorageFrame(buf, D)
    /\ (r.op = "save_pokemon" /\ r.detail.storage = "None") => D = {}
    /\ CurrentBlockOnly(buf, D)

\* the ranges of the team/items section a game family gives to the five
\* pockets and to the six 100-byte party slots
TeamItemsRanges(game_code) ==
    {<<pocket_address(kind, game_code)[1], pocket_address(kind, game_code)[2]>> :
        kind \in Pockets}
    \cup {<<IF game_code = MkU32(0, 1) THEN 56 ELSE 568,
            IF game_code = MkU32(0, 1) THEN 656 ELSE 1168>>}

\* C28: save_pocket(kind, ..) changes only bytes of that pocket's range and
\* of the checksum field of the current block's team/items section;
\* save_pokemon(PC, ..) on a current block holding the nine storage sections
\* changes only bytes of their payload prefixes and checksum fields;
\* save_pokemon(None, ..) changes nothing; no write changes a byte of the
\* block that is not current; within each game family the five pocket ranges
\* and the party array are six non-empty ranges, pairwise disjoint.
C28_WritesTouchOnlyTheirRange ==
    [][/\ ret'.op \in {"save_pokemon", "save_pocket"} =>
            IF ret'.status = "err" THEN data' = data
            ELSE WriteFrame(ret', data, Changed(data, data'))
       /\ (ret'.op = "save_pokemon" /\ ret'.detail.storage = "None") =>
            (ret'.status = "ok" /\ pc_buffer' = pc_buffer)
       /\ \A g \in GameCodes :
            /\ Cardinality(TeamItemsRanges(g)) = 6
            /\ \A r1, r2 \in TeamItemsRanges(g) :
                  /\ r1[1] < r1[2]
                  /\ r1 # r2 => (r1[2] <= r2[1] \/ r2[2] <= r1[1])]_vars

\* the key pocket of an Emerald file was saved: the entry written first is
\* there, the checksum field changed, and the items pocket that ends where
\* the key pocket starts still holds its entry
C28_Witness ==
    /\ Returned("save_pocket")
    /\ ret.detail = "Key"
    /\ read_game_code(data).code = MkU32(34661, 17185)
    /\ With(get_section(data, TeamItems).section, LAMBDA s :
           /\ ReadBytes(data, s.offset + 1496, 2) = <<13, 0>>
           /\ ReadBytes(data, s.offset + 1376, 4) = <<13, 0, 5, 0>>
           /\ ChecksumValid(s, data))

\* the sections an operation needs
Needed(op) ==
    CASE op \in {"game_code", "ot_name", "ot_id"} -> {TrainerInfo}
      [] op \in {"get_party", "pocket"} -> {TrainerInfo, TeamItems}
      [] OTHER -> {}

Missing(op) == {id \in Needed(op) : ~get_section(data, id).some}

\* C10 (as claimed): an operation that needs a section whose type id the
\* current block does not hold (get_party, game_code, ot_name, ot_id, pocket)
\* returns SectionNotFound for that id as an error value; it does not abort
\* and it does not return default data.
C10_SectionNotFound ==
    Missing(ret.op) # {} =>
        /\ ret.status = "err"
        /\ ret.detail[1] = "SectionNotFound"
        /\ ret.detail[2] \in Missing(ret.op)

\* C11 (as claimed): SaveFile::new over a buffer shorter than the two blocks
\* of 14 sections of 4096 bytes, the empty buffer included, gives its caller
\* the typed failure InvalidDataLength; it does not abort.
C11_TypedFailure ==
    (ret.op = "new" /\ data.len < 2 * NUMBER_GAME_SAVE_SECTIONS * SECTION_SIZE)
        => /\ ret.status = "err"
           /\ ret.detail[1] = "InvalidDataLength"


-----------------------------------------------------------------------------
(* SpecChecksum: one section and one record whose bytes change             *)

MaxPokes == 1            \* single-byte changes in one run

\* the payload and footer bytes of a section: words whose sum wraps 2^32,
\* whose halves sum to 2^16, bytes near the end of Section::data
SectionContents ==
    {{},
     Place(0, <<255, 255, 255, 255, 255, 255, 255, 255, 255, 255, 255, 255>>),
     Place(3960, <<255, 255, 1, 0>>) \cup Place(4084, <<1, 0, 7, 7>>),
     Place(8, <<1, 2, 3, 4>>) \cup Place(3964, <<9>>) \cup Place(4080, <<0, 0, 128, 200>>)
        \cup Place(4084, <<13, 0, 0, 0, 37, 32, 1, 8, 5, 0, 0, 0>>)}

ChecksumBuffers == {MkBuffer(SECTION_SIZE, FromPairs(P)) : P \in SectionContents}

\* offsets in the data of the section, then in its footer
PokeOffsets == {0, 1, 2, 3, 3963, 3964, 4083, 4084, 4086, 4087, 4088, 4095}
PokeValues == {0, 1, 255}
\* offsets in the 48-byte substructure of the record
SubstructureOffsets == {0, 1, 46, 47}

InitChecksum ==
    /\ data \in ChecksumBuffers
    /\ pk = Pokemon_new(0, TORCHIK).p
    /\ slot = TORCHIK
    /\ edits = 0
    /\ writes = 0
    /\ fresh = FALSE
    /\ out = << >>
    /\ ret = Idle
    /\ pc_buffer = NoPCBuffer
    /\ pocket_in = << >>
    /\ entries = << >>

\* one byte of the section's 4096 gets another value
PokeByte ==
    /\ edits < MaxPokes
    /\ \E o \in PokeOffsets : \E v \in PokeValues :
          /\ v # Rd(data, o)
          /\ data' = WriteBytes(data, o, <<v>>)
          /\ ret' = Result("poke", "ok", o)
    /\ edits' = edits + 1
    /\ UNCHANGED <<pc_buffer, pk, slot, writes, fresh, out, pocket_in, entries>>

\* Section::write_checksum on the section
WriteChecksum ==
    /\ data' = write_checksum(Section(0), data)
    /\ ret' = Result("write_checksum", "ok", << >>)
    /\ UNCHANGED <<pc_buffer, pk, slot, edits, writes, fresh, out, pocket_in, entries>>

\* one byte of the record's decrypted substructure gets another value
PokeSubstructure ==
    /\ edits < MaxPokes
    /\ \E i \in SubstructureOffsets : \E v \in PokeValues :
          /\ v # pk.pokemon_data.data[i + 1]
          /\ pk' = [pk EXCEPT !.pokemon_data.data = Splice(@, i, <<v>>)]
          /\ ret' = Result("poke_substructure", "ok", i)
    /\ edits' = edits + 1
    /\ UNCHANGED <<data, pc_buffer, slot, writes, fresh, out, pocket_in, entries>>

\* the record's header changes: the stored checksum, the markings
PokeHeader ==
    /\ edits < MaxPokes
    /\ \E v \in PokeValues :
          \/ pk' = [pk EXCEPT !.checksum = <<v, v>>]
          \/ pk' = [pk EXCEPT !.markings = <<v>>]
    /\ ret' = Result("poke_header", "ok", << >>)
    /\ edits' = edits + 1
    /\ UNCHANGED <<data, pc_buffer, slot, writes, fresh, out, pocket_in, entries>>

NextChecksum ==
    \/ PokeByte
    \/ WriteChecksum
    \/ PokeSubstructure
    \/ PokeHeader

SpecChecksum == InitChecksum /\ [][NextChecksum]_vars


\* the section of SpecChecksum
S0 == Section(0)

\* C12: the section checksum and the substructure checksum depend on their
\* payload only: write_checksum leaves the value it computes unchanged and a
\* second write_checksum changes nothing, a change of a footer byte (type id,
\* stored checksum, signature, save index) leaves the section checksum
\* unchanged, a change of the record's header leaves the substructure checksum
\* unchanged; and a change of one payload byte changes the checksum.
C12_ChecksumOfPayload ==
    [][/\ ret'.op = "write_checksum" =>
            /\ Section_checksum(S0, data') = Section_checksum(S0, data)
            /\ write_checksum(S0, data') = data'
       /\ (ret'.op = "poke" /\ ret'.detail >= SECTION_DATA_SIZE) =>
            Section_checksum(S0, data') = Section_checksum(S0, data)
       /\ (ret'.op = "poke" /\ ret'.detail < 3964) =>
            Section_checksum(S0, data') # Section_checksum(S0, data)
       /\ ret'.op = "poke_header" =>
            PokemonData_checksum(pk'.pokemon_data) = PokemonData_checksum(pk.pokemon_data)
       /\ ret'.op = "poke_substructure" =>
            PokemonData_checksum(pk'.pokemon_data) # PokemonData_checksum(pk.pokemon_data)]_vars

\* a byte of the stored checksum was changed: the field no longer holds the
\* checksum of the payload
C12_Witness ==
    /\ ret.op = "poke"
    /\ ret.detail = 4086
    /\ StoredChecksum(S0, data) # Section_checksum(S0, data)

\* the little-endian 32-bit word w of the buffer, and the wrapping sum of
\* the words W
WordAt(buf, w) ==
    MkU32(Rd(buf, 4 * w + 2) + 256 * Rd(buf, 4 * w + 3), Rd(buf, 4 * w) + 256 * Rd(buf, 4 * w + 1))

RECURSIVE WrappingSum(_, _)
WrappingSum(buf, W) ==
    IF W = {} THEN MkU32(0, 0)
    ELSE LET w == CHOOSE x \in W : \A y \in W : x <= y
             rest == WrappingSum(buf, {x \in W : x > w})
             word == WordAt(buf, w)
         IN  MkU32((word.hi + rest.hi + ((word.lo + rest.lo) \div 65536)) % 65536,
                   (word.lo + rest.lo) % 65536)

\* S: the sum modulo 2^32 of the words of the first n bytes of the section
\* at offset 0 (the words without a non-zero byte add nothing)
PayloadSum(buf, n) == WrappingSum(buf, {o \div 4 : o \in NonZero(buf, 0, n - 1)})

\* C13: Section::write_checksum stores, little-endian at section offset
\* 0x0FF6, the value ((S mod 2^16) + (S div 2^16)) mod 2^16, S being the sum
\* modulo 2^32 of the 4-byte little-endian words of the payload Section::data
\* gives; it folds once and changes no other byte of the buffer.
C13_WriteChecksum ==
    [][ret'.op = "write_checksum" =>
          /\ Rd(data', 4086) + 256 * Rd(data', 4087)
               = (PayloadSum(data, SECTION_DATA_SIZE).lo
                  + PayloadSum(data, SECTION_DATA_SIZE).hi) % 65536
          /\ SameOutside(data', data, 4086, 4087, 0, SECTION_SIZE - 1)
          /\ data'.len = data.len]_vars

\* the sum of the words wrapped 2^32 and the sum of its halves wraps 2^16
C13_Witness ==
    /\ ret.op = "write_checksum"
    /\ PayloadSum(data, SECTION_DATA_SIZE) = MkU32(65535, 65533)
    /\ StoredChecksum(S0, data) = 65532

-----------------------------------------------------------------------------
(* The substructure of a decoded record                                    *)

\* the group (0 Growth, 1 Attacks, 2 EV, 3 Miscellaneous) a decoded
\* substructure places at byte offset o; 4 when it places none there
GroupAt(pd, o) ==
    IF pd.growth_offset = o THEN 0
    ELSE IF pd.attacks_offset = o THEN 1
    ELSE IF pd.ev_offset = o THEN 2
    ELSE IF pd.miscellaneous_offset = o THEN 3
    ELSE 4

\* the groups in the order they lie in the 48 bytes
PhysicalOrder(pd) == <<GroupAt(pd, 0), GroupAt(pd, 12), GroupAt(pd, 24), GroupAt(pd, 36)>>

\* the position of a sequence of 0..3 among the 24 orderings, lexicographic
LexRank(s) ==
    6 * Cardinality({j \in 2..4 : s[j] < s[1]})
    + 2 * Cardinality({j \in 3..4 : s[j] < s[2]})
    + Cardinality({j \in 4..4 : s[j] < s[3]})

\* the permutation key of the record: personality value modulo 24, from
\* the bytes of the slot (256, 2^16 and 2^24 are 16 modulo 24)
KeyOfSlot(b) == (b[1] + 16 * (b[2] + b[3] + b[4])) % 24

\* C15: for every key 0..23 order_data_substructure gives the Growth, Attacks,
\* EV and Miscellaneous groups the offsets 0, 12, 24, 36 as a permutation, no
\* two keys give the same ordering, and key k gives the k-th ordering in
\* lexicographic order of the physical sequence, Growth < Attacks < EV <
\* Miscellaneous.
C15_SubstructureOrder ==
    pk # NoPokemon =>
        /\ {pk.pokemon_data.growth_offset, pk.pokemon_data.attacks_offset,
            pk.pokemon_data.ev_offset, pk.pokemon_data.miscellaneous_offset} = {0, 12, 24, 36}
        /\ LexRank(PhysicalOrder(pk.pokemon_data)) = KeyOfSlot(slot)
        /\ \A j \in 0..23 :
              j # KeyOfSlot(slot) =>
                  PhysicalOrder(order_data_substructure(j, << >>)) # PhysicalOrder(pk.pokemon_data)

\* key 17 decoded: EV, Miscellaneous, Attacks, Growth
C15_Witness ==
    /\ pk # NoPokemon
    /\ KeyOfSlot(slot) = 17
    /\ PhysicalOrder(pk.pokemon_data) = <<2, 3, 1, 0>>

\* byte i (from 0) of the slot's substructure XOR byte i mod 4 of
\* (trainer id XOR personality value)
Decrypted(b, i) == Xor(b[33 + i], Xor(b[1 + (i % 4)], b[5 + (i % 4)]))

\* the place (1..4) of the Growth group in the k-th lexicographic ordering
GrowthPosition(k) ==
    IF k \div 6 = 0 THEN 1
    ELSE IF (k % 6) \div 2 = 0 THEN 2
    ELSE IF k % 2 = 0 THEN 3
    ELSE 4

\* C16: decoding a slot with personality value P and trainer id T gives
\* (until a mutator or update_checksum touches the record) the substructure
\* whose every 4-byte word is the stored word XOR (T XOR P); with
\* P mod 24 = 5 the groups lie at Growth 0, Miscellaneous 12, EV 24, Attacks
\* 36; the species id is the little-endian 16-bit value at the start of the
\* Growth group.
C16_Decode ==
    (pk # NoPokemon /\ edits = 0 /\ ~fresh) =>
        /\ \A i \in 0..47 : pk.pokemon_data.data[i + 1] = Decrypted(slot, i)
        /\ KeyOfSlot(slot) = 5 =>
              /\ pk.pokemon_data.growth_offset = 0
              /\ pk.pokemon_data.miscellaneous_offset = 12
              /\ pk.pokemon_data.ev_offset = 24
              /\ pk.pokemon_data.attacks_offset = 36
        /\ species_id(pk) =
              Decrypted(slot, 12 * (GrowthPosition(KeyOfSlot(slot)) - 1))
              + 256 * Decrypted(slot, 12 * (GrowthPosition(KeyOfSlot(slot)) - 1) + 1)

\* a record with key 5 decoded under a non-zero XOR key
C16_Witness ==
    /\ pk # NoPokemon /\ edits = 0 /\ ~fresh
    /\ KeyOfSlot(slot) = 5
    /\ species_id(pk) = 280
    /\ Slice(slot, 32, 36) # Slice(pk.pokemon_data.data, 0, 4)


-----------------------------------------------------------------------------
(* The sections whose save indexes current_save compares                   *)

\* the offsets of the sections of the block at base whose stored type id is 0
TypeZeroSections(base) ==
    {base + k * SECTION_SIZE : k \in {j \in 0..(NUMBER_GAME_SAVE_SECTIONS - 1) :
        Rd(data, base + j * SECTION_SIZE + 4084) = 0
        /\ Rd(data, base + j * SECTION_SIZE + 4085) = 0}}

\* the four bytes of the save index of the type-0 section of a block
TypeZeroIndexBytes(base) ==
    ReadBytes(data, (CHOOSE o \in TypeZeroSections(base) : TRUE) + 4092, 4)

\* C17 (as claimed): the two save indexes current_save compares are those of
\* the section whose type id is 0 in block A and in block B, wherever that
\* section sits in the rotated order: block A is picked exactly when its
\* type-0 section's index is not 2^32-1 and is greater than that of block
\* B's type-0 section.
C17_TypeZeroSection ==
    (/\ Returned("current_save")
     /\ Cardinality(TypeZeroSections(GAME_SAVE_A_OFFSET)) = 1
     /\ Cardinality(TypeZeroSections(GAME_SAVE_B_OFFSET)) = 1)
        => ((ret.detail = "A") <=>
              (/\ TypeZeroIndexBytes(GAME_SAVE_A_OFFSET) # <<255, 255, 255, 255>>
               /\ NewerBytes(TypeZeroIndexBytes(GAME_SAVE_A_OFFSET),
                             TypeZeroIndexBytes(GAME_SAVE_B_OFFSET))))


-----------------------------------------------------------------------------
(* The offsets the decoded records carry                                   *)

\* the position in the file of byte L of the concatenated storage area: in
\* the section of the current block whose type id is 5 + L div 3968
PhysicalPosition(L) ==
    SectionOfType(data, PCbufferA + (L \div PC_BUFFER_SECTION_SIZE)).offset
    + (L % PC_BUFFER_SECTION_SIZE)

\* the party's base in the TeamItems section, from the game code's bytes
PartyBase ==
    IF ReadBytes(data, SectionOfType(data, TrainerInfo).offset + 172, 4) = <<1, 0, 0, 0>>
    THEN 56 ELSE 568

\* party slot i (from 0) carries section offset + base + 100 * i
PartyOffsets ==
    Returned("get_party") =>
        \A i \in 0..5 :
            ret.detail[i + 1] = SectionOfType(data, TeamItems).offset + PartyBase + 100 * i

\* C18 (as claimed): every decoded record carries the absolute offset of its
\* slot in the file: party slot i the TeamItems section's offset + base +
\* 100 * i (base 0x38 with game code 1, else 0x238), box n slot i the position
\* in the file of byte 4 + 2400 * n + 80 * i of the storage area.
C18_AbsoluteOffsets ==
    /\ PartyOffsets
    /\ (Returned("pc_box") /\ OnceEach(data)) =>
          \A i \in 0..29 :
              ret.detail.offsets[i + 1] = PhysicalPosition(4 + 2400 * ret.detail.number + 80 * i)

\* C18 (amended): party slot i carries the absolute offset in the file,
\* TeamItems section offset + base + 100 * i (base 0x38 with game code 1, else
\* 0x238); box n slot i carries 4 + 2400 * n + 80 * i, its offset in the
\* concatenated storage area, not a position in the file.
C18_TaggedOffsets ==
    /\ PartyOffsets
    /\ Returned("pc_box") =>
          \A i \in 0..29 : ret.detail.offsets[i + 1] = 4 + 2400 * ret.detail.number + 80 * i

\* the last slot of the last box, in a file whose current block is block B
\* with rotated sections: its bytes lie in the section of type 13
C18_Witness ==
    /\ Returned("pc_box")
    /\ ret.detail.number = 13
    /\ ret.detail.offsets[30] = 33524
    /\ OnceEach(data)
    /\ PhysicalPosition(33524) # 33524
    /\ current_save(data) = game_save_b


-----------------------------------------------------------------------------
(* Header fields of a record: the trainer id and the nickname              *)

\* get_char_set: the string of each of the 256 codes, as code points; the
\* codes the function does not assign hold " "
char_set == <<
    <<32>>, <<192>>, <<193>>, <<194>>, <<199>>, <<200>>, <<201>>, <<202>>,
    <<203>>, <<204>>, <<32>>, <<206>>, <<207>>, <<210>>, <<211>>, <<212>>,
    <<338>>, <<217>>, <<218>>, <<219>>, <<209>>, <<223>>, <<224>>, <<225>>,
    <<32>>, <<231>>, <<232>>, <<233>>, <<234>>, <<235>>, <<236>>, <<32>>,
    <<238>>, <<239>>, <<242>>, <<243>>, <<244>>, <<339>>, <<249>>, <<250>>,
    <<251>>, <<241>>, <<186>>, <<170>>, <<7497, 691>>, <<38>>, <<43>>, <<32>>,
    <<32>>, <<32>>, <<32>>, <<32>>, <<76, 118>>, <<61>>, <<59>>, <<32>>,
    <<32>>, <<32>>, <<32>>, <<32>>, <<32>>, <<32>>, <<32>>, <<32>>,
    <<32>>, <<32>>, <<32>>, <<32>>, <<32>>, <<32>>, <<32>>, <<32>>,
    <<32>>, <<32>>, <<32>>, <<32>>, <<32>>, <<32>>, <<32>>, <<32>>,
    <<9647>>, <<191>>, <<161>>, <<32>>, <<32>>, <<32>>, <<32>>, <<32>>,
    <<32>>, <<32>>, <<205>>, <<37>>, <<40>>, <<41>>, <<32>>, <<32>>,
    <<32>>, <<32>>, <<32>>, <<32>>, <<32>>, <<32>>, <<32>>, <<32>>,
    <<226>>, <<32>>, <<32>>, <<32>>, <<32>>, <<32>>, <<32>>, <<237>>,
    <<32>>, <<32>>, <<32>>, <<32>>, <<32>>, <<32>>, <<32>>, <<32>>,
    <<32>>, <<8593>>, <<8595>>, <<8592>>, <<8594>>, <<42>>, <<42>>, <<42>>,
    <<42>>, <<42>>, <<42>>, <<42>>, <<7497>>, <<60>>, <<62>>, <<32>>,
    <<32>>, <<32>>, <<32>>, <<32>>, <<32>>, <<32>>, <<32>>, <<32>>,
    <<32>>, <<32>>, <<32>>, <<32>>, <<32>>, <<32>>, <<32>>, <<32>>,
    <<32>>, <<32>>, <<32>>, <<32>>, <<32>>, <<32>>, <<32>>, <<32>>,
    <<691, 7497>>, <<48>>, <<49>>, <<50>>, <<51>>, <<52>>, <<53>>, <<54>>,
    <<55>>, <<56>>, <<57>>, <<33>>, <<63>>, <<46>>, <<45>>, <<12539>>,
    <<8230>>, <<8220>>, <<8221>>, <<8216>>, <<8217>>, <<9794>>, <<9792>>, <<36>>,
    <<44>>, <<215>>, <<47>>, <<65>>, <<66>>, <<67>>, <<68>>, <<69>>,
    <<70>>, <<71>>, <<72>>, <<73>>, <<74>>, <<75>>, <<76>>, <<77>>,
    <<78>>, <<79>>, <<80>>, <<81>>, <<82>>, <<83>>, <<84>>, <<85>>,
    <<86>>, <<87>>, <<88>>, <<89>>, <<90>>, <<97>>, <<98>>, <<99>>,
    <<100>>, <<101>>, <<102>>, <<103>>, <<104>>, <<105>>, <<106>>, <<107>>,
    <<108>>, <<109>>, <<110>>, <<111>>, <<112>>, <<113>>, <<114>>, <<115>>,
    <<116>>, <<117>>, <<118>>, <<119>>, <<120>>, <<121>>, <<122>>, <<9658>>,
    <<58>>, <<196>>, <<214>>, <<220>>, <<228>>, <<246>>, <<252>>, <<32>>,
    <<32>>, <<32>>, <<32>>, <<32>>, <<32>>, <<32>>, <<32>>, <<32>> >>

\* get_char(index)
get_char(index) == char_set[index + 1]

\* get_code(s): position(..).unwrap() aborts when no entry equals s
get_code(s) ==
    IF \E i \in 1..Len(char_set) : char_set[i] = s
    THEN [ok |-> TRUE,
          code |-> (CHOOSE i \in 1..Len(char_set) :
                      char_set[i] = s /\ \A j \in 1..(i - 1) : char_set[j] # s) - 1]
    ELSE Panicked

\* format!("{: <10}", s): spaces appended up to 10 chars
PadRight(s) == IF Len(s) >= 10 THEN s ELSE s \o [i \in 1..(10 - Len(s)) |-> 32]

\* Pokemon::set_nickname: [ok, p]; aborts in get_code, or in
\* copy_from_slice when the codes are not 10
set_nickname(p, nickname) ==
    With(PadRight(nickname), LAMBDA padded :
    With(SubSeq([i \in 1..Len(padded) |-> get_code(<<padded[i]>>)], 1, Len(padded)),
         LAMBDA name :
        IF \E i \in 1..Len(name) : ~name[i].ok THEN Panicked
        ELSE IF Len(name) # 10 THEN Panicked
        ELSE [ok |-> TRUE,
              p |-> [p EXCEPT !.nickname = SubSeq([i \in 1..10 |-> name[i].code], 1, 10)]]))

\* join(""): the strings of the codes, one after the other
RECURSIVE Join(_)
Join(codes) ==
    IF codes = << >> THEN << >> ELSE get_char(Head(codes)) \o Join(Tail(codes))

\* split(' ').next().unwrap(): what comes before the first space
RECURSIVE FirstField(_)
FirstField(s) ==
    IF s = << >> \/ Head(s) = 32 THEN << >> ELSE <<Head(s)>> \o FirstField(Tail(s))

\* Pokemon::nickname
nickname(p) == FirstField(Join(p.nickname))

\* impl From<[u8; 4]> for TrainerID
TrainerID_from(buffer) ==
    [public |-> read_u16(Slice(buffer, 0, 2)), private |-> read_u16(Slice(buffer, 2, 4))]

\* impl Into<Vec<u8>> for TrainerID
TrainerID_into(id) == <<0, 0, 0, 0>>

MaxNameLen == 2          \* characters of the nicknames drawn freely

\* codes of the characters the nicknames are made of: space, the
\* two-code-point entries 0x2C and 0x34, "*" under two codes, letters
NameCodes == {0, 44, 52, 125, 126, 187, 213, 246}

RECURSIVE NamesUpTo(_)
NamesUpTo(n) ==
    IF n = 0 THEN {<< >>}
    ELSE NamesUpTo(n - 1)
         \cup {Append(s, c) : s \in {x \in NamesUpTo(n - 1) : Len(x) = n - 1}, c \in NameCodes}

\* TORCHIC, MR. MIME, ten letters, six times the entry "Lv"
LongNames ==
    {<<206, 201, 204, 189, 194, 195, 189>>, <<199, 204, 173, 0, 199, 195, 199, 191>>,
     <<187, 188, 189, 190, 191, 192, 193, 194, 195, 196>>, <<52, 52, 52, 52, 52, 52>>}

\* nicknames as sequences of codes of the character set
Nicknames == NamesUpTo(MaxNameLen) \cup LongNames

IdBytes == {0, 1, 128, 255}

InitFields ==
    /\ pk = Pokemon_new(0, TORCHIK).p
    /\ slot = TORCHIK
    /\ data = EmptyBuffer
    /\ pc_buffer = NoPCBuffer
    /\ edits = 0
    /\ writes = 0
    /\ fresh = FALSE
    /\ out = << >>
    /\ ret = Idle
    /\ pocket_in = << >>
    /\ entries = << >>

\* TrainerID::from(bytes)
TrainerIDFrom ==
    /\ ret.op = "init"
    /\ \E b0, b1, b2, b3 \in IdBytes :
          ret' = Result("trainer_id_from", "ok",
                        [bytes |-> <<b0, b1, b2, b3>>, id |-> TrainerID_from(<<b0, b1, b2, b3>>)])
    /\ UNCHANGED <<data, pc_buffer, pk, slot, edits, writes, fresh, out, pocket_in, entries>>

\* the TrainerID converted back with into()
TrainerIDInto ==
    /\ ret.op = "trainer_id_from"
    /\ out' = TrainerID_into(ret.detail.id)
    /\ ret' = Result("trainer_id_into", "ok", ret.detail)
    /\ UNCHANGED <<data, pc_buffer, pk, slot, edits, writes, fresh, pocket_in, entries>>

\* set_nickname with the string of a sequence of characters of the set
SetNickname ==
    /\ ret.op = "init"
    /\ \E codes \in Nicknames :
          LET r == set_nickname(pk, Join(codes))
          IN  /\ pk' = IF r.ok THEN r.p ELSE pk
              /\ ret' = Result("set_nickname", IF r.ok THEN "ok" ELSE "panic",
                               [codes |-> codes, name |-> Join(codes)])
    /\ UNCHANGED <<data, pc_buffer, slot, edits, writes, fresh, out, pocket_in, entries>>

\* nickname() on the record set_nickname changed
ReadNickname ==
    /\ ret.op = "set_nickname" /\ ret.status = "ok"
    /\ out' = nickname(pk)
    /\ ret' = Result("nickname", "ok", ret.detail)
    /\ UNCHANGED <<data, pc_buffer, pk, slot, edits, writes, fresh, pocket_in, entries>>

\* str::to_uppercase on the letters a..z
ToUpper(s) == [i \in 1..Len(s) |-> IF s[i] >= 97 /\ s[i] <= 122 THEN s[i] - 32 ELSE s[i]]

\* Pokemon::set_species(species): [status, p]. The Pokedex table is not part
\* of the sources: lookup is what nat_dex_num(species) answers, [ok, id],
\* and same tells whether species().to_uppercase() == nickname()
set_species(p, species, lookup, same) ==
    With(IF same THEN set_nickname(p, ToUpper(species)) ELSE [ok |-> TRUE, p |-> p],
         LAMBDA named :
        IF ~named.ok THEN [status |-> "panic", p |-> p]
        ELSE IF ~lookup.ok THEN [status |-> "err", p |-> named.p]
        ELSE With(IF lookup.id = 0 THEN 412
                  ELSE IF lookup.id >= 252 THEN SPECIES[lookup.id - 251 + 1]
                  ELSE lookup.id, LAMBDA id :
             [status |-> "ok",
              p |-> [named.p EXCEPT !.pokemon_data.data =
                        Splice(@, named.p.pokemon_data.growth_offset, to_le_bytes16(id))]]))

\* Mew, Ho-Oh
SpeciesNames == {<<77, 101, 119>>, <<72, 111, 45, 79, 104>>}
\* the national dex numbers, and 0
DexNumbers == 0..386

\* set_species with a name the table knows under dex number d, or does not
\* know
SetSpecies ==
    /\ ret.op = "init"
    /\ \E species \in SpeciesNames, same \in BOOLEAN,
          lookup \in {[ok |-> TRUE, id |-> d] : d \in DexNumbers} \cup {Panicked} :
          LET r == set_species(pk, species, lookup, same)
          IN  /\ pk' = r.p
              /\ ret' = Result("set_species", r.status, lookup)
    /\ UNCHANGED <<data, pc_buffer, slot, edits, writes, fresh, out, pocket_in, entries>>

\* nat_dex_number() on the record set_species changed
NatDexNumber ==
    /\ ret.op = "set_species" /\ ret.status = "ok"
    /\ ret' = IF nat_dex_number_panics(pk)
              THEN Result("nat_dex_number", "panic", [dex |-> ret.detail.id, got |-> 0])
              ELSE Result("nat_dex_number", "ok",
                          [dex |-> ret.detail.id, got |-> nat_dex_number(pk)])
    /\ UNCHANGED <<data, pc_buffer, pk, slot, edits, writes, fresh, out, pocket_in, entries>>

\* misc.rs EXPERIENCE_TABLE: per level the experience threshold of the
\* curves Erratic, Fast, Medium Fast, Medium Slow, Slow, Fluctuating, and
\* the level
EXPERIENCE_TABLE == <<
    <<0, 0, 0, 0, 0, 0, 1>>,
    <<15, 6, 8, 9, 10, 4, 2>>,
    <<52, 21, 27, 57, 33, 13, 3>>,
    <<122, 51, 64, 96, 80, 32, 4>>,
    <<237, 100, 125, 135, 156, 65, 5>>,
    <<406, 172, 216, 179, 270, 112, 6>>,
    <<637, 274, 343, 236, 428, 178, 7>>,
    <<942, 409, 512, 314, 640, 276, 8>>,
    <<1326, 583, 729, 419, 911, 393, 9>>,
    <<1800, 800, 1000, 560, 1250, 540, 10>>,
    <<2369, 1064, 1331, 742, 1663, 745, 11>>,
    <<3041, 1382, 1728, 973, 2160, 967, 12>>,
    <<3822, 1757, 2197, 1261, 2746, 1230, 13>>,
    <<4719, 2195, 2744, 1612, 3430, 1591, 14>>,
    <<5737, 2700, 3375, 2035, 4218, 1957, 15>>,
    <<6881, 3276, 4096, 2535, 5120, 2457, 16>>,
    <<8155, 3930, 4913, 3120, 6141, 3046, 17>>,
    <<9564, 4665, 5832, 3798, 7290, 3732, 18>>,
    <<11111, 5487, 6859, 4575, 8573, 4526, 19>>,
    <<12800, 6400, 8000, 5460, 10000, 5440, 20>>,
    <<14632, 7408, 9261, 6458, 11576, 6482, 21>>,
    <<16610, 8518, 10648, 7577, 13310, 7666, 22>>,
    <<18737, 9733, 12167, 8825, 15208, 9003, 23>>,
    <<21012, 11059, 13824, 10208, 17280, 10506, 24>>,
    <<23437, 12500, 15625, 11735, 19531, 12187, 25>>,
    <<26012, 14060, 17576, 13411, 21970, 14060, 26>>,
    <<28737, 15746, 19683, 15244, 24603, 16140, 27>>,
    <<31610, 17561, 21952, 17242, 27440, 18439, 28>>,
    <<34632, 19511, 24389, 19411, 30486, 20974, 29>>,
    <<37800, 21600, 27000, 21760, 33750, 23760, 30>>,
    <<41111, 23832, 29791, 24294, 37238, 26811, 31>>,
    <<44564, 26214, 32768, 27021, 40960, 30146, 32>>,
    <<48155, 28749, 35937, 29949, 44921, 33780, 33>>,
    <<51881, 31443, 39304, 33084, 49130, 37731, 34>>,
    <<55737, 34300, 42875, 36435, 53593, 42017, 35>>,
    <<59719, 37324, 46656, 40007, 58320, 46656, 36>>,
    <<63822, 40522, 50653, 43808, 63316, 50653, 37>>,
    <<68041, 43897, 54872, 47846, 68590, 55969, 38>>,
    <<72369, 47455, 59319, 52127, 74148, 60505, 39>>,
    <<76800, 51200, 64000, 56660, 80000, 66560, 40>>,
    <<81326, 55136, 68921, 61450, 86151, 71677, 41>>,
    <<85942, 59270, 74088, 66505, 92610, 78533, 42>>,
    <<90637, 63605, 79507, 71833, 99383, 84277, 43>>,
    <<95406, 68147, 85184, 77440, 106480, 91998, 44>>,
    <<100237, 72900, 91125, 83335, 113906, 98415, 45>>,
    <<105122, 77868, 97336, 89523, 121670, 107069, 46>>,
    <<110052, 83058, 103823, 96012, 129778, 114205, 47>>,
    <<115015, 88473, 110592, 102810, 138240, 123863, 48>>,
    <<120001, 94119, 117649, 109923, 147061, 131766, 49>>,
    <<125000, 100000, 125000, 117360, 156250, 142500, 50>>,
    <<131324, 106120, 132651, 125126, 165813, 151222, 51>>,
    <<137795, 112486, 140608, 133229, 175760, 163105, 52>>,
    <<144410, 119101, 148877, 141677, 186096, 172697, 53>>,
    <<151165, 125971, 157464, 150476, 196830, 185807, 54>>,
    <<158056, 133100, 166375, 159635, 207968, 196322, 55>>,
    <<165079, 140492, 175616, 169159, 219520, 210739, 56>>,
    <<172229, 148154, 185193, 179056, 231491, 222231, 57>>,
    <<179503, 156089, 195112, 189334, 243890, 238036, 58>>,
    <<186894, 164303, 205379, 199999, 256723, 250562, 59>>,
    <<194400, 172800, 216000, 211060, 270000, 267840, 60>>,
    <<202013, 181584, 226981, 222522, 283726, 281456, 61>>,
    <<209728, 190662, 238328, 234393, 297910, 300293, 62>>,
    <<217540, 200037, 250047, 246681, 312558, 315059, 63>>,
    <<225443, 209715, 262144, 259392, 327680, 335544, 64>>,
    <<233431, 219700, 274625, 272535, 343281, 351520, 65>>,
    <<241496, 229996, 287496, 286115, 359370, 373744, 66>>,
    <<249633, 240610, 300763, 300140, 375953, 390991, 67>>,
    <<257834, 251545, 314432, 314618, 393040, 415050, 68>>,
    <<267406, 262807, 328509, 329555, 410636, 433631, 69>>,
    <<276458, 274400, 343000, 344960, 428750, 459620, 70>>,
    <<286328, 286328, 357911, 360838, 447388, 479600, 71>>,
    <<296358, 298598, 373248, 377197, 466560, 507617, 72>>,
    <<305767, 311213, 389017, 394045, 486271, 529063, 73>>,
    <<316074, 324179, 405224, 411388, 506530, 559209, 74>>,
    <<326531, 337500, 421875, 429235, 527343, 582187, 75>>,
    <<336255, 351180, 438976, 447591, 548720, 614566, 76>>,
    <<346965, 365226, 456533, 466464, 570666, 639146, 77>>,
    <<357812, 379641, 474552, 485862, 593190, 673863, 78>>,
    <<367807, 394431, 493039, 505791, 616298, 700115, 79>>,
    <<378880, 409600, 512000, 526260, 640000, 737280, 80>>,
    <<390077, 425152, 531441, 547274, 664301, 765275, 81>>,
    <<400293, 441094, 551368, 568841, 689210, 804997, 82>>,
    <<411686, 457429, 571787, 590969, 714733, 834809, 83>>,
    <<423190, 474163, 592704, 613664, 740880, 877201, 84>>,
    <<433572, 491300, 614125, 636935, 767656, 908905, 85>>,
    <<445239, 508844, 636056, 660787, 795070, 954084, 86>>,
    <<457001, 526802, 658503, 685228, 823128, 987754, 87>>,
    <<467489, 545177, 681472, 710266, 851840, 1035837, 88>>,
    <<479378, 563975, 704969, 735907, 881211, 1071552, 89>>,
    <<491346, 583200, 729000, 762160, 911250, 1122660, 90>>,
    <<501878, 602856, 753571, 789030, 941963, 1160499, 91>>,
    <<513934, 622950, 778688, 816525, 973360, 1214753, 92>>,
    <<526049, 643485, 804357, 844653, 1005446, 1254796, 93>>,
    <<536557, 664467, 830584, 873420, 1038230, 1312322, 94>>,
    <<548720, 685900, 857375, 902835, 1071718, 1354652, 95>>,
    <<560922, 707788, 884736, 932903, 1105920, 1415577, 96>>,
    <<571333, 730138, 912673, 963632, 1140841, 1460276, 97>>,
    <<583539, 752953, 941192, 995030, 1176490, 1524731, 98>>,
    <<591882, 776239, 970299, 1027103, 1212873, 1571884, 99>>,
    <<600000, 800000, 1000000, 1059860, 1250000, 1640000, 100>> >>

\* growth_index: the column of a growth-rate name, 7 for any other string
growth_index(growth) ==
    CASE growth = "Erratic" -> 0
      [] growth = "Fast" -> 1
      [] growth = "Medium Fast" -> 2
      [] growth = "Medium Slow" -> 3
      [] growth = "Slow" -> 4
      [] growth = "Fluctuating" -> 5
      [] OTHER -> 7

\* a table entry as a u32
U32Of(n) == MkU32(n \div U16, n % U16)

\* Pokemon::experience
experience(p) ==
    read_u32(Slice(p.pokemon_data.data, p.pokemon_data.growth_offset + 4,
                   p.pokemon_data.growth_offset + 8))

\* level() with < where the code has <= on the lower threshold
level_strict(p, growth) ==
    IF personality_value(p) = MkU32(0, 0) THEN Ok(0)
    ELSE IF growth_index(growth) + 1 > 7 THEN Abort
    ELSE With(growth_index(growth) + 1, LAMBDA g :
         With({i \in 1..99 :
                 /\ Gt32(experience(p), U32Of(EXPERIENCE_TABLE[i][g]))
                 /\ Gt32(U32Of(EXPERIENCE_TABLE[i + 1][g]), experience(p))}, LAMBDA M :
             IF M = {} THEN Ok(EXPERIENCE_TABLE[100][7])
             ELSE Ok(EXPERIENCE_TABLE[CHOOSE i \in M : \A j \in M : i <= j][7])))

\* Pokemon::level: growth is what growth_rate(dex number) answered, "" on a
\* miss; the loop stops at the first row whose threshold and the next
\* row's enclose the experience, and the last row sets its level when no
\* row did; current[7] is out of the row's bounds and aborts
level(p, growth) ==
    IF personality_value(p) = MkU32(0, 0) THEN Ok(0)
    ELSE IF growth_index(growth) + 1 > 7 THEN Abort
    ELSE With(growth_index(growth) + 1, LAMBDA g :
         With({i \in 1..99 :
                 /\ ~Gt32(U32Of(EXPERIENCE_TABLE[i][g]), experience(p))
                 /\ Gt32(U32Of(EXPERIENCE_TABLE[i + 1][g]), experience(p))}, LAMBDA M :
             IF M = {} THEN Ok(EXPERIENCE_TABLE[100][7])
             ELSE Ok(EXPERIENCE_TABLE[CHOOSE i \in M : \A j \in M : i <= j][7])))

\* Pokemon::set_level: [ok, p]; aborts on level - 1 below 0, on a row past
\* the table and on column 7
set_level(p, lvl, growth) ==
    IF lvl < 1 \/ lvl > 100 \/ growth_index(growth) + 1 > 7 THEN Panicked
    ELSE [ok |-> TRUE,
          p |-> [p EXCEPT !.pokemon_data.data =
                    Splice(@, p.pokemon_data.growth_offset + 4,
                           to_le_bytes32(U32Of(EXPERIENCE_TABLE[lvl][growth_index(growth) + 1])))]]

\* what growth_rate answers: the six curves, and "" for a miss
GrowthRates == {"Erratic", "Fast", "Medium Fast", "Medium Slow", "Slow", "Fluctuating", ""}
Levels == 0..101

\* experience values around every threshold of the table, and the extremes
ExperienceValues ==
    {U32Of(v) : v \in {n \in UNION {{EXPERIENCE_TABLE[l][g] - 1, EXPERIENCE_TABLE[l][g],
                                     EXPERIENCE_TABLE[l][g] + 1} : l \in 1..100, g \in 1..6} :
                          n >= 0}}
    \cup {MkU32(32768, 0), U32_MAX}

\* set_level on the decoded record
SetLevel ==
    /\ ret.op = "init"
    /\ \E lvl \in Levels, growth \in GrowthRates :
          LET r == set_level(pk, lvl, growth)
          IN  /\ pk' = IF r.ok THEN r.p ELSE pk
              /\ ret' = Result("set_level", IF r.ok THEN "ok" ELSE "panic",
                               [growth |-> growth, set |-> lvl])
    /\ UNCHANGED <<data, pc_buffer, slot, edits, writes, fresh, out, pocket_in, entries>>

\* a record that holds the experience e
HoldExperience ==
    /\ ret.op = "init"
    /\ \E e \in ExperienceValues, growth \in GrowthRates :
          /\ pk' = [pk EXCEPT !.pokemon_data.data =
                       Splice(@, pk.pokemon_data.growth_offset + 4, to_le_bytes32(e))]
          /\ ret' = Result("experience", "ok", [growth |-> growth, set |-> 0])
    /\ UNCHANGED <<data, pc_buffer, slot, edits, writes, fresh, out, pocket_in, entries>>

\* level() on the record
Level ==
    /\ ret.op \in {"set_level", "experience"} /\ ret.status = "ok"
    /\ LET r == level(pk, ret.detail.growth)
       IN  ret' = Result("level", r.status,
                         [growth |-> ret.detail.growth, set |-> ret.detail.set,
                          got |-> IF r.status = "ok" THEN r.value ELSE 0])
    /\ UNCHANGED <<data, pc_buffer, pk, slot, edits, writes, fresh, out, pocket_in, entries>>

\* misc.rs GENDER_THRESHOLD: (threshold, gender ratio)
GENDER_THRESHOLD == <<
    <<255, "Genderless">>, <<254, "0:100">>, <<225, "12.5:87.5">>, <<191, "75:25">>,
    <<127, "50:50">>, <<63, "25:75">>, <<31, "87.5:12.5">>, <<0, "100:0">> >>

\* gender_threshold: gender is what gender_ratio(dex number) answered, ""
\* on a miss; 255 when no entry of the table has that ratio
gender_threshold(gender) ==
    IF \E i \in 1..Len(GENDER_THRESHOLD) : GENDER_THRESHOLD[i][2] = gender
    THEN GENDER_THRESHOLD[CHOOSE i \in 1..Len(GENDER_THRESHOLD) :
                             /\ GENDER_THRESHOLD[i][2] = gender
                             /\ \A j \in 1..(i - 1) : GENDER_THRESHOLD[j][2] # gender][1]
    ELSE 255

\* gender_from_p, with the answer of gender_ratio for the dex number
gender_from_p(p, gender) ==
    IF p = MkU32(0, 0) THEN "None"
    ELSE IF gender_threshold(gender) = 255 THEN "None"
    ELSE IF p.lo % 256 >= gender_threshold(gender) THEN "M"
    ELSE "F"

\* what gender_ratio answers: the eight ratios, and "" for a miss
GenderRatios ==
    {GENDER_THRESHOLD[i][2] : i \in 1..Len(GENDER_THRESHOLD)} \cup {""}
\* personality values: 0, and low bytes around the thresholds
GenderValues ==
    {MkU32(hi, lo) : hi \in {0, 1, 65535},
                     lo \in {0, 1, 30, 31, 32, 126, 127, 128, 253, 254, 255, 256, 511, 65535}}

\* Pokemon::gender on a record with the personality value p
GenderOf ==
    /\ ret.op = "init"
    /\ \E p \in GenderValues, gender \in GenderRatios :
          /\ pk' = [pk EXCEPT !.personality_value = to_le_bytes32(p)]
          /\ ret' = Result("gender", "ok",
                           [ratio |-> gender, got |-> gender_from_p(p, gender)])
    /\ UNCHANGED <<data, pc_buffer, slot, edits, writes, fresh, out, pocket_in, entries>>

NextFields ==
    \/ TrainerIDFrom
    \/ TrainerIDInto
    \/ SetNickname
    \/ ReadNickname
    \/ SetSpecies
    \/ NatDexNumber
    \/ SetLevel
    \/ HoldExperience
    \/ Level
    \/ GenderOf

SpecFields == InitFields /\ [][NextFields]_vars

\* C19 (as claimed): a TrainerID built from 4 bytes has public = the
\* little-endian 16-bit value of bytes 0..1 and private = that of bytes 2..3,
\* and converting it back to bytes gives those 4 bytes, public half first.
C19_TrainerIDRoundTrip ==
    /\ ret.op \in {"trainer_id_from", "trainer_id_into"} =>
          /\ ret.detail.id.public = ret.detail.bytes[1] + 256 * ret.detail.bytes[2]
          /\ ret.detail.id.private = ret.detail.bytes[3] + 256 * ret.detail.bytes[4]
    /\ ret.op = "trainer_id_into" => out = ret.detail.bytes

\* C20 (as claimed): for every nickname of at most 10 characters of the
\* character set, set_nickname returns and leaves 10 bytes: codes whose
\* strings make up the nickname, then the space code to the end; nickname()
\* read afterwards returns the written string cut at its first space, the
\* whole string when it holds none.
C20_Nickname ==
    /\ (ret.op = "set_nickname" /\ Len(ret.detail.codes) <= 10) =>
          /\ ret.status = "ok"
          /\ Len(pk.nickname) = 10
          /\ \E k \in 0..10 :
                /\ Join(SubSeq(pk.nickname, 1, k)) = ret.detail.name
                /\ \A i \in (k + 1)..10 : pk.nickname[i] = 0
    /\ ret.op = "nickname" =>
          /\ Len(out) <= Len(ret.detail.name)
          /\ out = SubSeq(ret.detail.name, 1, Len(out))
          /\ \A i \in 1..Len(out) : out[i] # 32
          /\ Len(out) = Len(ret.detail.name) \/ ret.detail.name[Len(out) + 1] = 32


-----------------------------------------------------------------------------
(* Reference data: species, growth curves, gender                          *)

\* C21 (as claimed): a miss in the reference data never aborts decoding:
\* Pokemon::new on an 80-byte slot returns a record whatever the raw species
\* id the slot holds.
C21_NoAbortOnMiss ==
    (ret.op = "new" /\ Len(slot) = 80) => ret.status = "ok"


\* C22: for every national dex number d in 1..386, nat_dex_number after
\* set_species returns d: the internal id is d up to 251, above it one of
\* 277..411 that no other dex number of 252..386 is given; dex number 0 is
\* stored as internal id 412, which reads back as 0.
C22_DexRoundTrip ==
    ret.op = "nat_dex_number" =>
        /\ ret.status = "ok"
        /\ ret.detail.got = ret.detail.dex
        /\ (ret.detail.dex \in 1..251) => species_id(pk) = ret.detail.dex
        /\ (ret.detail.dex \in 252..386) =>
              /\ species_id(pk) \in 277..411
              /\ \A e \in 252..386 :
                    e # ret.detail.dex => SPECIES[e - 250] # species_id(pk)
        /\ (ret.detail.dex = 0) => species_id(pk) = 412

\* the last dex number, stored as 410
C22_Witness ==
    /\ ret.op = "nat_dex_number"
    /\ ret.status = "ok"
    /\ ret.detail.dex = 386
    /\ ret.detail.got = 386
    /\ species_id(pk) = 410


\* the bytes of the experience field as halves: at least / below row l of
\* column g
Reaches(l, g) ==
    LET e == pk.pokemon_data.data
        o == pk.pokemon_data.growth_offset
        hi == e[o + 7] + 256 * e[o + 8]
        lo == e[o + 5] + 256 * e[o + 6]
        t == EXPERIENCE_TABLE[l][g]
    IN  hi > t \div 65536 \/ (hi = t \div 65536 /\ lo >= t % 65536)

\* C23: on a non-empty record, for each of the six growth curves, level()
\* returns the level L with threshold(L) <= experience < threshold(L + 1),
\* and 100 at or above the level-100 threshold; set_level(L) followed by
\* level() returns L for every L in 1..100.
C23_Level ==
    (ret.op = "level" /\ ret.detail.growth # "") =>
        /\ ret.status = "ok"
        /\ ret.detail.got \in 1..100
        /\ Reaches(ret.detail.got, growth_index(ret.detail.growth) + 1)
        /\ ret.detail.got < 100 =>
              ~Reaches(ret.detail.got + 1, growth_index(ret.detail.growth) + 1)
        /\ ret.detail.set # 0 => ret.detail.got = ret.detail.set

\* level 37 of the Fluctuating curve, one below the threshold of level 38
C23_Witness ==
    /\ ret.op = "level"
    /\ ret.detail.growth = "Fluctuating"
    /\ ret.detail.set = 0
    /\ ret.detail.got = 37
    /\ ~Reaches(38, 6)
    /\ Reaches(37, 6)
    /\ experience(pk).lo = (EXPERIENCE_TABLE[38][6] - 1) % 65536


\* C24 (as claimed): for a female-only species (ratio 0:100) gender is F for
\* every non-zero personality value, for a male-only species (100:0) it is
\* M for every non-zero personality value; gender is None exactly when the
\* personality value is 0 or the species has the threshold 255.
C24_Gender ==
    ret.op = "gender" =>
        /\ (ret.detail.ratio = "0:100" /\ pk.personality_value # <<0, 0, 0, 0>>) =>
              ret.detail.got = "F"
        /\ (ret.detail.ratio = "100:0" /\ pk.personality_value # <<0, 0, 0, 0>>) =>
              ret.detail.got = "M"
        /\ (ret.detail.got = "None") <=>
              (pk.personality_value = <<0, 0, 0, 0>> \/ ret.detail.ratio \in {"Genderless", ""})


-----------------------------------------------------------------------------
(* Pokerus                                                                 *)

\* the byte that holds the strain (high nibble) and the days (low nibble)
PokerusByte(p) == p.pokemon_data.data[p.pokemon_data.miscellaneous_offset + 1]

\* C25: pokerus_status is None when the strain nibble is 0, Infected when
\* strain > 0 and days > 0, Cured when strain > 0 and days = 0; infect_pokerus
\* leaves the status Infected, cure_pokerus leaves it Cured if a strain was
\* present and None otherwise, remove_pokerus leaves it None, whatever calls
\* came before.
C25_Pokerus ==
    [][/\ pk' # NoPokemon =>
            /\ (pokerus_status(pk') = "None") <=> PokerusByte(pk') < 16
            /\ (pokerus_status(pk') = "Infected") <=>
                  (PokerusByte(pk') >= 16 /\ PokerusByte(pk') % 16 # 0)
            /\ (pokerus_status(pk') = "Cured") <=>
                  (PokerusByte(pk') >= 16 /\ PokerusByte(pk') % 16 = 0)
       /\ InfectPokerus => pokerus_status(pk') = "Infected"
       /\ CurePokerus =>
            pokerus_status(pk') = IF PokerusByte(pk) >= 16 THEN "Cured" ELSE "None"
       /\ RemovePokerus => pokerus_status(pk') = "None"]_vars

\* a record cured after it was infected
C25_Witness ==
    /\ pk # NoPokemon
    /\ edits = 2
    /\ pokerus_status(pk) = "Cured"
    /\ pokerus_status(Pokemon_new(0, slot).p) = "None"


-----------------------------------------------------------------------------
(* update_checksum and the word of the individual values                   *)

\* the top byte of the little-endian word that holds the six individual
\* values (bits 0..29), is-egg (bit 30) and the ability slot (bit 31)
IvTopByte(p) == p.pokemon_data.data[p.pokemon_data.miscellaneous_offset + 8]

\* Pokemon::is_empty
is_empty(p) == read_u32(p.personality_value) = MkU32(0, 0)

\* Pokemon::is_egg
is_egg(p) == ~(is_empty(p) \/ And(IvTopByte(p), 64) \div 64 = 0)

\* Pokemon::ability_index
ability_index(p) == And(IvTopByte(p), 128) \div 128

\* the record as Pokemon::new gave it
AsDecoded == Pokemon_new(0, slot).p

\* C29 (as claimed): update_checksum on a decoded record whose stats were not
\* edited leaves the decrypted substructure unchanged: the six effort-value
\* bytes, the 30 bits of the individual values, and bits 30 and 31 of the
\* same word, so that is_egg() and the ability slot are what they were after
\* decoding.
C29_UpdateChecksumKeepsSubstructure ==
    (pk # NoPokemon /\ edits = 0 /\ fresh) =>
        /\ pk.pokemon_data.data = AsDecoded.pokemon_data.data
        /\ pk.stats = AsDecoded.stats
        /\ is_egg(pk) = is_egg(AsDecoded)
        /\ ability_index(pk) = ability_index(AsDecoded)


-----------------------------------------------------------------------------
(* SpecStats: Stats::update_evs and Stats::update_ivs on one record        *)

MaxStatCalls == 2        \* update_evs / update_ivs calls in one run

\* u16::saturating_sub
saturating_sub(a, b) == IF a > b THEN a - b ELSE 0

\* recalc_ev
recalc_ev(new_ev, new_total) ==
    IF new_total < 510 /\ new_ev < 252 THEN new_ev
    ELSE IF new_total < 510 /\ new_ev > 252
         THEN saturating_sub(new_ev, saturating_sub(new_ev, 252))
    ELSE saturating_sub(new_ev, saturating_sub(new_total, 510))

\* recalc_iv
recalc_iv(new_iv) ==
    IF new_iv < 31 THEN new_iv
    ELSE saturating_sub(new_iv, saturating_sub(new_iv, 31))

\* the field of Stats each name of update_evs / update_ivs stands for
EvField ==
    [name \in {"HP", "Attack", "Defense", "Sp. Atk", "Sp. Def", "Speed"} |->
        CASE name = "HP" -> "hp_ev"
          [] name = "Attack" -> "attack_ev"
          [] name = "Defense" -> "defense_ev"
          [] name = "Sp. Atk" -> "sp_attack_ev"
          [] name = "Sp. Def" -> "sp_defense_ev"
          [] name = "Speed" -> "speed_ev"]
IvField ==
    [name \in DOMAIN EvField |->
        CASE name = "HP" -> "hp_iv"
          [] name = "Attack" -> "attack_iv"
          [] name = "Defense" -> "defense_iv"
          [] name = "Sp. Atk" -> "sp_attack_iv"
          [] name = "Sp. Def" -> "sp_defense_iv"
          [] name = "Speed" -> "speed_iv"]

EvFields == {EvField[name] : name \in DOMAIN EvField}
IvFields == {IvField[name] : name \in DOMAIN IvField}

RECURSIVE SumOf(_, _)
SumOf(stats, F) ==
    IF F = {} THEN 0
    ELSE With(CHOOSE f \in F : TRUE, LAMBDA f : stats[f] + SumOf(stats, {g \in F : g # f}))

\* Stats::update_evs(ev, new_ev): [status, stats].  The u16 sum new_ev + the
\* five other effort values aborts when it overflows in a build with
\* overflow checks and wraps in a build without them (wraps)
update_evs(stats, ev, new_ev, wraps) ==
    IF ev \notin DOMAIN EvField THEN [status |-> "ok", stats |-> stats]
    ELSE With(new_ev + SumOf(stats, EvFields \ {EvField[ev]}), LAMBDA sum :
             IF sum >= U16 /\ ~wraps THEN [status |-> "panic", stats |-> stats]
             ELSE [status |-> "ok",
                   stats |-> [stats EXCEPT ![EvField[ev]] = recalc_ev(new_ev, sum % U16)]])

\* Stats::update_ivs(iv, new_iv)
update_ivs(stats, iv, new_iv) ==
    IF iv \notin DOMAIN IvField THEN stats
    ELSE [stats EXCEPT ![IvField[iv]] = recalc_iv(new_iv)]

\* the names a caller passes: the six stats and a name the match does not know
StatNames == DOMAIN EvField \cup {"Luck"}
\* 16-bit arguments: around 31, around 252, around 510, and the extremes
NewValues == {0, 31, 32, 251, 252, 253, 600, 65535}
\* the six effort-value bytes of the record at the start (hp, attack,
\* defense, speed, sp. attack, sp. defense): each fits in one byte, the sum
\* is at most 510
StartEvs ==
    {<<0, 0, 0, 0, 0, 0>>, <<85, 85, 85, 85, 85, 85>>, <<252, 252, 6, 0, 0, 0>>,
     <<100, 0, 0, 0, 0, 200>>, <<255, 0, 0, 0, 0, 0>>}

\* the record Pokemon::new gives for a slot that holds the effort values evs
WithEvs(p, evs) ==
    With([p EXCEPT !.pokemon_data.data = Splice(@, p.pokemon_data.ev_offset, evs)], LAMBDA q :
        [q EXCEPT !.stats = ReadStats(q.pokemon_data)])

InitStats ==
    /\ pk \in {WithEvs(Pokemon_new(0, TORCHIK).p, evs) : evs \in StartEvs}
    /\ slot = TORCHIK
    /\ data = EmptyBuffer
    /\ pc_buffer = NoPCBuffer
    /\ edits = 0
    /\ writes = 0
    /\ fresh = FALSE
    /\ out = << >>
    /\ ret = Idle
    /\ pocket_in = << >>
    /\ entries = << >>

\* pokemon.stats_mut().update_evs(ev, new_ev)
UpdateEvs ==
    /\ ret.status = "ok"
    /\ edits < MaxStatCalls
    /\ \E ev \in StatNames : \E new_ev \in NewValues : \E wraps \in BOOLEAN :
          With(update_evs(pk.stats, ev, new_ev, wraps), LAMBDA r :
              /\ pk' = [pk EXCEPT !.stats = r.stats]
              /\ ret' = Result("update_evs", r.status, <<ev, new_ev>>))
    /\ edits' = edits + 1
    /\ fresh' = FALSE
    /\ UNCHANGED <<data, pc_buffer, slot, writes, out, pocket_in, entries>>

\* pokemon.stats_mut().update_ivs(iv, new_iv)
UpdateIvs ==
    /\ ret.status = "ok"
    /\ edits < MaxStatCalls
    /\ \E iv \in StatNames : \E new_iv \in NewValues :
          /\ pk' = [pk EXCEPT !.stats = update_ivs(pk.stats, iv, new_iv)]
          /\ ret' = Result("update_ivs", "ok", <<iv, new_iv>>)
    /\ edits' = edits + 1
    /\ fresh' = FALSE
    /\ UNCHANGED <<data, pc_buffer, slot, writes, out, pocket_in, entries>>

NextStats ==
    \/ UpdateEvs
    \/ UpdateIvs
    \/ UpdateChecksum

SpecStats == InitStats /\ [][NextStats]_vars

\* C30 (as claimed): from effort values that each fit in one byte and sum to
\* at most 510, after any update_evs calls with any 16-bit argument no call
\* has overflowed, every effort value is at most 252 and the six sum to at
\* most 510; after update_ivs every individual value is at most 31; and
\* save_stats then stores each value as it is, without truncation.
C30_StatsWithinWidths ==
    /\ ret.op \in {"update_evs", "update_ivs"} =>
          /\ ret.status = "ok"
          /\ \A f \in EvFields : pk.stats[f] <= 252
          /\ SumOf(pk.stats, EvFields) <= 510
          /\ \A f \in IvFields : pk.stats[f] <= 31
    /\ (ret.op \in {"update_evs", "update_ivs"} /\ fresh) =>
          \A f \in EvFields \cup IvFields : ReadStats(pk.pokemon_data)[f] = pk.stats[f]

=============================================================================
